---------------------------- MODULE Spec2Model ----------------------------
(***************************************************************************)
(* Registration store of the Apple Wallet pass server:                    *)
(* convex/registrations.js over the tables of the Convex schema.          *)
(*                                                                         *)
(* A Convex mutation runs as one serializable transaction, so a mutation  *)
(* is one atomic step; a mutation that throws rolls back and leaves the   *)
(* tables as they were.  Each handler is written as an operator from the  *)
(* tables (and the clock) to the tables after the call and the value      *)
(* returned; the actions below apply the handlers to the state.           *)
(*                                                                         *)
(* A row's _id is opaque to the code, which only ever compares ids.  A    *)
(* new row gets an id <<key, n>> that no row and no reference holds; n    *)
(* is 0 unless another row or a dangling reference holds <<key, 0>>. The  *)
(* tables do not record the creation order of their rows.                 *)
(***************************************************************************)
EXTENDS Integers, Sequences, FiniteSets, TLC

(***************************************************************************)
(* Inputs                                                                  *)
(***************************************************************************)
DeviceLibraryIdentifiers == {"dev1", "dev2"}
PushTokens == {"ptok1", "ptok2"}
PassTypeIdentifiers == {"pass.a", "pass.b"}
AuthenticationTokens == {"T1", "T2"}

\* The (passTypeIdentifier, serialNumber) pairs callers name: two cards of
\* one type, and a card of another type that shares a serial with one of them.
PassKeys == {<<"pass.a", "s1">>, <<"pass.a", "s2">>, <<"pass.b", "s1">>}

\* The registerDevice calls offered: the second device always presents the
\* same pushToken, and only the first card is presented with two different
\* authentication tokens.
RegisterCalls ==
    {c \in DeviceLibraryIdentifiers \X PushTokens \X PassKeys \X AuthenticationTokens :
        /\ c[1] = "dev2" => c[2] = "ptok1"
        /\ c[3] # <<"pass.a", "s1">> => c[4] = "T1"}

\* Date.now() takes the values 1..MaxClock
MaxClock == 2
\* the passesUpdatedSince numerals offered to getPassesForDevice are 0..MaxSince
MaxSince == 11

VARIABLES
    devices,        \* table "devices": _id -> row
    passes,         \* table "passes": _id -> row
    registrations,  \* table "registrations": _id -> row
    now,            \* the value Date.now() returns
    supplied,       \* history: the pushToken of the latest registerDevice call
                    \* for each deviceLibraryIdentifier since its row was created
    request,        \* the Wallet web-service request the worker is handling
    tick            \* the run of sendPushNotifications in progress

vars == <<devices, passes, registrations, now, supplied, request, tick>>

None == "none"

\* the three tables, as a handler sees them
DB == [devices |-> devices, passes |-> passes, registrations |-> registrations]

EmptyTable == [i \in {} |-> {}]

(***************************************************************************)
(* Tables, ids, indexes                                                    *)
(***************************************************************************)
Rows(table) == {table[i] : i \in DOMAIN table}

\* ctx.db.insert: the _id of the new row
FreshId(key, used) ==
    LET n == CHOOSE m \in 0..Cardinality(used) :
                 /\ <<key, m>> \notin used
                 /\ \A j \in 0..Cardinality(used) : <<key, j>> \notin used => m <= j
    IN  <<key, n>>

DeviceIdsInUse(db) ==
    DOMAIN db.devices \cup {r.deviceId : r \in Rows(db.registrations)}
PassIdsInUse(db) ==
    DOMAIN db.passes \cup {r.passId : r \in Rows(db.registrations)}

\* ctx.db.insert(table, row)
Insert(table, id, row) == [i \in DOMAIN table \cup {id} |->
                              IF i = id THEN row ELSE table[i]]

\* ctx.db.delete(id)
Delete(table, id) == [i \in DOMAIN table \ {id} |-> table[i]]

\* ctx.db.query("devices").withIndex("by_device_lib_id", eq)
devicesByLibId(db, deviceLibraryIdentifier) ==
    {i \in DOMAIN db.devices :
        db.devices[i].deviceLibraryIdentifier = deviceLibraryIdentifier}

\* passesByTypeAndSerial that matches the passTypeIdentifier only
passesByTypeAndSerial_typeOnly(db, passTypeIdentifier, serialNumber) ==
    {i \in DOMAIN db.passes : db.passes[i].passTypeIdentifier = passTypeIdentifier}

\* ctx.db.query("passes").withIndex("by_pass_type_and_serial", eq, eq)
passesByTypeAndSerial(db, passTypeIdentifier, serialNumber) ==
    {i \in DOMAIN db.passes :
        /\ db.passes[i].passTypeIdentifier = passTypeIdentifier
        /\ db.passes[i].serialNumber = serialNumber}

\* ctx.db.query("registrations").withIndex("by_device_and_pass", eq, eq)
registrationsByDeviceAndPass(regs, deviceId, passId) ==
    {i \in DOMAIN regs : regs[i].deviceId = deviceId /\ regs[i].passId = passId}

\* ctx.db.query("registrations").withIndex("by_device", eq)
registrationsByDevice(regs, deviceId) ==
    {i \in DOMAIN regs : regs[i].deviceId = deviceId}

\* .unique() throws when more than one row matches, and gives null when none does
UniqueOk(ids) == Cardinality(ids) <= 1
TheRow(ids) == CHOOSE i \in ids : TRUE

(***************************************************************************)
(* registerDevice                                                          *)
(***************************************************************************)

\* registerDevice_device without "Update push token if changed"
registerDevice_device_keepToken(db, deviceLibraryIdentifier, pushToken) ==
    LET existingDevice == devicesByLibId(db, deviceLibraryIdentifier) IN
    IF existingDevice # {}
    THEN [id |-> TheRow(existingDevice), table |-> db.devices]
    ELSE LET deviceId == FreshId(deviceLibraryIdentifier, DeviceIdsInUse(db)) IN
         [id |-> deviceId,
          table |-> Insert(db.devices, deviceId,
                      [deviceLibraryIdentifier |-> deviceLibraryIdentifier,
                       pushToken |-> pushToken])]

\* "Find or create device": the devices table after it, and deviceId
registerDevice_device(db, deviceLibraryIdentifier, pushToken) ==
    LET existingDevice == devicesByLibId(db, deviceLibraryIdentifier) IN
    IF existingDevice # {}
    THEN LET deviceId == TheRow(existingDevice) IN
         [id |-> deviceId,
          table |-> IF db.devices[deviceId].pushToken # pushToken
                    THEN [db.devices EXCEPT ![deviceId].pushToken = pushToken]
                    ELSE db.devices]
    ELSE LET deviceId == FreshId(deviceLibraryIdentifier, DeviceIdsInUse(db)) IN
         [id |-> deviceId,
          table |-> Insert(db.devices, deviceId,
                      [deviceLibraryIdentifier |-> deviceLibraryIdentifier,
                       pushToken |-> pushToken])]

\* registerDevice_pass that inserts without looking for an existing pass
registerDevice_pass_alwaysInsert(db, t, passTypeIdentifier, serialNumber, authenticationToken) ==
    LET passId == FreshId(<<passTypeIdentifier, serialNumber>>, PassIdsInUse(db)) IN
    [id |-> passId,
     table |-> Insert(db.passes, passId,
                 [passTypeIdentifier |-> passTypeIdentifier,
                  serialNumber |-> serialNumber,
                  authenticationToken |-> authenticationToken,
                  lastUpdated |-> t])]

\* registerDevice_pass that takes a pass for existing only if it has the
\* authenticationToken presented
registerDevice_pass_matchToken(db, t, passTypeIdentifier, serialNumber, authenticationToken) ==
    LET existingPass == {i \in passesByTypeAndSerial(db, passTypeIdentifier, serialNumber) :
                            db.passes[i].authenticationToken = authenticationToken} IN
    IF existingPass # {}
    THEN [id |-> TheRow(existingPass), table |-> db.passes]
    ELSE LET passId == FreshId(<<passTypeIdentifier, serialNumber>>,
                               PassIdsInUse(db)) IN
         [id |-> passId,
          table |-> Insert(db.passes, passId,
                      [passTypeIdentifier |-> passTypeIdentifier,
                       serialNumber |-> serialNumber,
                       authenticationToken |-> authenticationToken,
                       lastUpdated |-> t])]

\* "Find or create pass": the passes table after it, and passId
registerDevice_pass(db, t, passTypeIdentifier, serialNumber, authenticationToken) ==
    LET existingPass == passesByTypeAndSerial(db, passTypeIdentifier, serialNumber) IN
    IF existingPass # {}
    THEN LET passId == TheRow(existingPass) IN
         [id |-> passId,
          table |-> IF db.passes[passId].authenticationToken # authenticationToken
                    THEN [db.passes EXCEPT ![passId].authenticationToken =
                                                 authenticationToken]
                    ELSE db.passes]
    ELSE LET passId == FreshId(<<passTypeIdentifier, serialNumber>>,
                               PassIdsInUse(db)) IN
         [id |-> passId,
          table |-> Insert(db.passes, passId,
                      [passTypeIdentifier |-> passTypeIdentifier,
                       serialNumber |-> serialNumber,
                       authenticationToken |-> authenticationToken,
                       lastUpdated |-> t])]

\* registerDevice_registration that inserts without the existence check
registerDevice_registration_alwaysInsert(regs, deviceId, passId) ==
    [isNew |-> TRUE,
     table |-> Insert(regs, FreshId(<<deviceId, passId>>, DOMAIN regs),
                      [deviceId |-> deviceId, passId |-> passId])]

\* "Check if registration already exists", else insert: the table after it, isNew
registerDevice_registration(regs, deviceId, passId) ==
    IF registrationsByDeviceAndPass(regs, deviceId, passId) # {}
    THEN [isNew |-> FALSE, table |-> regs]
    ELSE [isNew |-> TRUE,
          table |-> Insert(regs, FreshId(<<deviceId, passId>>, DOMAIN regs),
                           [deviceId |-> deviceId, passId |-> passId])]

\* the handler: [threw, db, isNew]
registerDevice(db, t, deviceLibraryIdentifier, pushToken, passTypeIdentifier, serialNumber, authenticationToken) ==
    LET d == registerDevice_device(db, deviceLibraryIdentifier, pushToken)
        p == registerDevice_pass(db, t, passTypeIdentifier, serialNumber,
                                 authenticationToken)
        r == registerDevice_registration(db.registrations, d.id, p.id)
    IN  IF /\ UniqueOk(devicesByLibId(db, deviceLibraryIdentifier))
           /\ UniqueOk(passesByTypeAndSerial(db, passTypeIdentifier, serialNumber))
           /\ UniqueOk(registrationsByDeviceAndPass(db.registrations, d.id, p.id))
        THEN [threw |-> FALSE,
              db |-> [devices |-> d.table, passes |-> p.table,
                      registrations |-> r.table],
              isNew |-> r.isNew]
        ELSE [threw |-> TRUE, db |-> db, isNew |-> FALSE]

(***************************************************************************)
(* unregisterDevice                                                        *)
(***************************************************************************)

\* unregisterDevice_cleanup that never deletes the device
unregisterDevice_cleanup_never(devs, regs, deviceId) == devs

\* unregisterDevice_cleanup that always deletes the device
unregisterDevice_cleanup_always(devs, regs, deviceId) == Delete(devs, deviceId)

\* unregisterDevice_cleanup with the test inverted
unregisterDevice_cleanup_inverted(devs, regs, deviceId) ==
    IF registrationsByDevice(regs, deviceId) # {}
    THEN Delete(devs, deviceId)
    ELSE devs

\* "Clean up: if device has no more registrations, delete the device"
unregisterDevice_cleanup(devs, regs, deviceId) ==
    IF registrationsByDevice(regs, deviceId) = {}
    THEN Delete(devs, deviceId)
    ELSE devs

\* unregisterDevice_delete that deletes every registration of the row's device
unregisterDevice_delete_allOfDevice(regs, registrationId) ==
    [i \in {j \in DOMAIN regs : regs[j].deviceId # regs[registrationId].deviceId} |->
        regs[i]]

\* unregisterDevice_delete that leaves the row in place
unregisterDevice_delete_none(regs, registrationId) == regs

\* await ctx.db.delete(registration._id)
unregisterDevice_delete(regs, registrationId) == Delete(regs, registrationId)

\* unregisterDevice that also deletes a pass left without registrations
unregisterDevice_cascade(db, deviceLibraryIdentifier, passTypeIdentifier, serialNumber) ==
    LET device == devicesByLibId(db, deviceLibraryIdentifier)
        pass == passesByTypeAndSerial(db, passTypeIdentifier, serialNumber)
        registration ==
            IF device = {} \/ pass = {} THEN {}
            ELSE registrationsByDeviceAndPass(db.registrations,
                                              TheRow(device), TheRow(pass))
    IN  IF ~UniqueOk(device) \/ ~UniqueOk(pass) \/ ~UniqueOk(registration)
        THEN [threw |-> TRUE, db |-> db, deleted |-> FALSE]
        ELSE IF registration = {}
             THEN [threw |-> FALSE, db |-> db, deleted |-> FALSE]
        ELSE LET regs == unregisterDevice_delete(db.registrations,
                                                 TheRow(registration))
             IN  [threw |-> FALSE,
                  db |-> [devices |-> unregisterDevice_cleanup(
                                         db.devices, regs, TheRow(device)),
                          passes |-> IF \A r \in DOMAIN regs :
                                           regs[r].passId # TheRow(pass)
                                     THEN Delete(db.passes, TheRow(pass))
                                     ELSE db.passes,
                          registrations |-> regs],
                  deleted |-> TRUE]

\* the handler: [threw, db, deleted]
unregisterDevice(db, deviceLibraryIdentifier, passTypeIdentifier, serialNumber) ==
    LET device == devicesByLibId(db, deviceLibraryIdentifier)
        pass == passesByTypeAndSerial(db, passTypeIdentifier, serialNumber)
        registration ==
            IF device = {} \/ pass = {} THEN {}
            ELSE registrationsByDeviceAndPass(db.registrations,
                                              TheRow(device), TheRow(pass))
    IN  IF ~UniqueOk(device) THEN [threw |-> TRUE, db |-> db, deleted |-> FALSE]
        ELSE IF device = {} THEN [threw |-> FALSE, db |-> db, deleted |-> FALSE]
        ELSE IF ~UniqueOk(pass) THEN [threw |-> TRUE, db |-> db, deleted |-> FALSE]
        ELSE IF pass = {} THEN [threw |-> FALSE, db |-> db, deleted |-> FALSE]
        ELSE IF ~UniqueOk(registration)
             THEN [threw |-> TRUE, db |-> db, deleted |-> FALSE]
        ELSE IF registration = {}
             THEN [threw |-> FALSE, db |-> db, deleted |-> FALSE]
        ELSE LET regs == unregisterDevice_delete(db.registrations,
                                                 TheRow(registration))
             IN  [threw |-> FALSE,
                  db |-> [devices |-> unregisterDevice_cleanup(
                                         db.devices, regs, TheRow(device)),
                          passes |-> db.passes,
                          registrations |-> regs],
                  deleted |-> TRUE]

(***************************************************************************)
(* touchPass, touchAllPasses                                               *)
(***************************************************************************)

\* touchPass_patch that writes a time before the call
touchPass_patch_stale(table, passId, t) == [table EXCEPT ![passId].lastUpdated = t - 1]

\* touchPass_patch that writes nothing
touchPass_patch_skipped(table, passId, t) == table

\* touchPass_patch that patches every pass row
touchPass_patch_all(table, passId, t) ==
    [i \in DOMAIN table |-> [table[i] EXCEPT !.lastUpdated = t]]

\* await ctx.db.patch(pass._id, { lastUpdated: Date.now() })
touchPass_patch(table, passId, t) == [table EXCEPT ![passId].lastUpdated = t]

\* the handler: [threw, db]
touchPass(db, t, passTypeIdentifier, serialNumber) ==
    LET pass == passesByTypeAndSerial(db, passTypeIdentifier, serialNumber) IN
    IF ~UniqueOk(pass) THEN [threw |-> TRUE, db |-> db]
    ELSE [threw |-> FALSE,
          db |-> IF pass # {}
                 THEN [db EXCEPT !.passes = touchPass_patch(db.passes, TheRow(pass), t)]
                 ELSE db]

\* (variant: no pass is patched)
touchAllPasses_patch_none(table, t) == table

\* passes.map((pass) => ctx.db.patch(pass._id, { lastUpdated: now }))
touchAllPasses_patch(table, t) ==
    [i \in DOMAIN table |-> [table[i] EXCEPT !.lastUpdated = t]]

\* the handler: [threw, db, count]
touchAllPasses(db, t) ==
    [threw |-> FALSE,
     db |-> [db EXCEPT !.passes = touchAllPasses_patch(db.passes, t)],
     count |-> Cardinality(DOMAIN db.passes)]

(***************************************************************************)
(* getPassesForDevice                                                      *)
(*                                                                         *)
(* A JavaScript string is the sequence of its characters.                  *)
(***************************************************************************)
Undefined == [kind |-> "undefined"]
Null == [kind |-> "null"]
Str(chars) == [kind |-> "string", chars |-> chars]

Digits == <<"0", "1", "2", "3", "4", "5", "6", "7", "8", "9">>
IsDigit(c) == \E i \in 1..Len(Digits) : Digits[i] = c
DigitValue(c) == (CHOOSE i \in 1..Len(Digits) : Digits[i] = c) - 1

RECURSIVE StripLeft(_)
StripLeft(s) == IF s # <<>> /\ Head(s) = " " THEN StripLeft(Tail(s)) ELSE s

RECURSIVE DigitPrefix(_)
DigitPrefix(s) ==
    IF s # <<>> /\ IsDigit(Head(s)) THEN <<Head(s)>> \o DigitPrefix(Tail(s)) ELSE <<>>

RECURSIVE DecimalValue(_)
DecimalValue(ds) ==
    IF ds = <<>> THEN 0
    ELSE 10 * DecimalValue(SubSeq(ds, 1, Len(ds) - 1)) + DigitValue(ds[Len(ds)])

\* parseInt(s, 10): leading blanks, an optional sign, then the longest run of
\* digits; NaN when there is no digit
parseInt(s) ==
    LET t == StripLeft(s)
        signed == t # <<>> /\ Head(t) \in {"+", "-"}
        ds == DigitPrefix(IF signed THEN Tail(t) ELSE t)
    IN  IF ds = <<>> THEN [nan |-> TRUE, value |-> 0]
        ELSE [nan |-> FALSE,
              value |-> IF signed /\ Head(t) = "-" THEN 0 - DecimalValue(ds)
                        ELSE DecimalValue(ds)]

\* Number.prototype.toString of a non-negative integer
RECURSIVE toString(_)
toString(n) ==
    IF n < 10 THEN <<Digits[n + 1]>>
    ELSE toString(n \div 10) \o <<Digits[(n % 10) + 1]>>

\* args.passesUpdatedSince ? parseInt(args.passesUpdatedSince, 10) || 0 : 0
sinceTimestamp(passesUpdatedSince) ==
    IF passesUpdatedSince.kind = "string" /\ passesUpdatedSince.chars # <<>>
    THEN LET n == parseInt(passesUpdatedSince.chars) IN
         IF n.nan \/ n.value = 0 THEN 0 ELSE n.value
    ELSE 0

\* filteredPasses with >= for >
filteredPasses_inclusive(p, passTypeIdentifier, since) ==
    /\ p # Null
    /\ p.passTypeIdentifier = passTypeIdentifier
    /\ p.lastUpdated >= since

\* the predicate of passes.filter: p is a row of the passes table, or Null
filteredPasses(p, passTypeIdentifier, since) ==
    /\ p # Null
    /\ p.passTypeIdentifier = passTypeIdentifier
    /\ p.lastUpdated > since

\* .collect(): the rows of a set of ids as a list
RECURSIVE collect(_)
collect(ids) ==
    IF ids = {} THEN <<>>
    ELSE LET i == CHOOSE x \in ids : TRUE IN <<i>> \o collect(ids \ {i})

\* ctx.db.get(id)
get(table, id) == IF id \in DOMAIN table THEN table[id] ELSE Null

\* (variant: the least element)
Max_least(S) == CHOOSE x \in S : \A y \in S : x <= y

\* Math.max(...S) of a non-empty set of numbers
Max(S) == CHOOSE x \in S : \A y \in S : y <= x

\* the handler: [threw, serialNumbers, lastUpdated]
getPassesForDevice(db, deviceLibraryIdentifier, passTypeIdentifier, passesUpdatedSince) ==
    LET device == devicesByLibId(db, deviceLibraryIdentifier)
        empty == [threw |-> FALSE, serialNumbers |-> <<>>, lastUpdated |-> Null]
    IN  IF ~UniqueOk(device)
        THEN [threw |-> TRUE, serialNumbers |-> <<>>, lastUpdated |-> Null]
        ELSE IF device = {} THEN empty
        ELSE LET regs == collect(registrationsByDevice(db.registrations,
                                                       TheRow(device)))
                 ps == [k \in 1..Len(regs) |->
                          get(db.passes, db.registrations[regs[k]].passId)]
                 since == sinceTimestamp(passesUpdatedSince)
                 filtered == SelectSeq(ps, LAMBDA p :
                                filteredPasses(p, passTypeIdentifier, since))
             IN  IF Len(regs) = 0 THEN empty
                 ELSE IF Len(filtered) = 0 THEN empty
                 ELSE [threw |-> FALSE,
                       serialNumbers |-> [k \in 1..Len(filtered) |->
                                            filtered[k].serialNumber],
                       lastUpdated |-> Str(toString(Max(
                           {filtered[k].lastUpdated : k \in 1..Len(filtered)})))]

(***************************************************************************)
(* Actions                                                                 *)
(***************************************************************************)
Commit(db) ==
    /\ devices' = db.devices
    /\ passes' = db.passes
    /\ registrations' = db.registrations

RegisterDeviceCall(l, pt, k, a) ==
    LET res == registerDevice(DB, now, l, pt, k[1], k[2], a) IN
    /\ ~res.threw
    /\ Commit(res.db)
    /\ supplied' = [supplied EXCEPT ![l] = pt]
    /\ UNCHANGED <<now, request, tick>>

UnregisterDeviceCall(l, k) ==
    LET res == unregisterDevice(DB, l, k[1], k[2]) IN
    /\ ~res.threw
    /\ Commit(res.db)
    /\ supplied' = [x \in DOMAIN supplied |->
                      IF devicesByLibId(res.db, x) = {} THEN None ELSE supplied[x]]
    /\ UNCHANGED <<now, request, tick>>

TouchPassCall(k) ==
    LET res == touchPass(DB, now, k[1], k[2]) IN
    /\ ~res.threw
    /\ Commit(res.db)
    /\ UNCHANGED <<now, supplied, request, tick>>

TouchAllPassesCall ==
    /\ Commit(touchAllPasses(DB, now).db)
    /\ UNCHANGED <<now, supplied, request, tick>>

\* Date.now() does not go back from one call to the next
ClockAdvance ==
    /\ now < MaxClock
    /\ now' = now + 1
    /\ UNCHANGED <<devices, passes, registrations, supplied, request, tick>>

\* no request is being handled
NoRequest == [pc |-> "idle"]

\* no run is in progress; failedBefore: the pushTokens whose push failed in
\* the last run that counted its results
Idle(failedBefore) == [pc |-> "idle", failedBefore |-> failedBefore]
NoTick == Idle({})

Init ==
    /\ devices = EmptyTable
    /\ passes = EmptyTable
    /\ registrations = EmptyTable
    /\ now = 1
    /\ supplied = [l \in DeviceLibraryIdentifiers |-> None]
    /\ request = NoRequest
    /\ tick = NoTick

Next ==
    \/ \E c \in RegisterCalls : RegisterDeviceCall(c[1], c[2], c[3], c[4])
    \/ \E l \in DeviceLibraryIdentifiers, k \in PassKeys : UnregisterDeviceCall(l, k)
    \/ \E k \in PassKeys : TouchPassCall(k)
    \/ TouchAllPassesCall
    \/ ClockAdvance

Spec == Init /\ [][Next]_vars

(***************************************************************************)
(* The worker: the Apple Wallet web-service routes of src/worker.js.       *)
(*                                                                         *)
(* A route handler awaits the store several times; between two awaits     *)
(* other requests run.  The request being handled is the variable          *)
(* request, each await of the store is one step, and the store operations  *)
(* above, taken between the steps, are the other requests.  The worker     *)
(* reaches the store through the Convex HTTP client, whose methods throw   *)
(* when the endpoint does not answer ok; an endpoint that does not answer  *)
(* ok has run no mutation, or has run one that threw and was rolled back,  *)
(* so a call that fails leaves the tables as they were.                    *)
(***************************************************************************)
\* the strings the worker takes apart, as sequences of characters
ApplePassPrefix == <<"A", "p", "p", "l", "e", "P", "a", "s", "s", " ">>
BearerT1 == <<"B", "e", "a", "r", "e", "r", " ", "T", "1">>

\* the characters of an authentication token
CharsOf(token) ==
    CASE token = "T1" -> <<"T", "1">>
      [] token = "T2" -> <<"T", "2">>
      [] OTHER -> <<"u", "u", "i", "d">>

\* String.prototype.startsWith and slice(n)
startsWith(s, prefix) ==
    Len(s) >= Len(prefix) /\ SubSeq(s, 1, Len(prefix)) = prefix
slice(s, n) == SubSeq(s, n + 1, Len(s))

\* !x for a string or null held as a plain value (null is None)
Falsy(x) == x = None \/ x = ""

\* the query getPassAuthToken: [threw, token], token None for null
getPassAuthToken(db, passTypeIdentifier, serialNumber) ==
    LET pass == passesByTypeAndSerial(db, passTypeIdentifier, serialNumber) IN
    IF ~UniqueOk(pass) THEN [threw |-> TRUE, token |-> None]
    ELSE IF pass = {} THEN [threw |-> FALSE, token |-> None]
    ELSE [threw |-> FALSE, token |-> db.passes[TheRow(pass)].authenticationToken]

\* (variant: any "ApplePass " header is accepted for a pass that exists)
verifyAppleAuth_anyToken(db, up, authHeader, passTypeId, serialNumber) ==
    /\ authHeader.kind = "string"
    /\ startsWith(authHeader.chars, ApplePassPrefix)
    /\ up
    /\ ~getPassAuthToken(db, passTypeId, serialNumber).threw
    /\ ~Falsy(getPassAuthToken(db, passTypeId, serialNumber).token)

\* verifyAppleAuth: whether the value returned is truthy.  up: the store
\* answers the token lookup; a lookup that throws is caught and yields false.
verifyAppleAuth(db, up, authHeader, passTypeId, serialNumber) ==
    IF authHeader.kind # "string" \/ authHeader.chars = <<>>
          \/ ~startsWith(authHeader.chars, ApplePassPrefix)
    THEN FALSE
    ELSE LET providedToken == slice(authHeader.chars, Len(ApplePassPrefix))
             expectedToken == getPassAuthToken(db, passTypeId, serialNumber)
         IN  IF ~up \/ expectedToken.threw THEN FALSE
             ELSE /\ ~Falsy(expectedToken.token)
                  /\ providedToken = CharsOf(expectedToken.token)

\* (variant: the parameter is not passed on)
orNull_dropped(x) == Null

\* x || null, for the passesUpdatedSince query parameter
orNull(x) == IF x.kind = "string" /\ x.chars # <<>> THEN x ELSE Null

\* crypto.randomUUID(): a token no caller presents
randomUUID == "uuid"

\* the requests offered to the worker: they come from one device, and the
\* store calls of the other requests are made for the other device as well
WorkerLibs == {"dev1"}
WorkerKeys == {<<"pass.a", "s1">>, <<"pass.a", "s2">>}
AuthorizationHeaders ==
    {Null, Str(BearerT1),
     Str(ApplePassPrefix \o CharsOf("T1")), Str(ApplePassPrefix \o CharsOf("T2"))}
\* body.pushToken of a register request: None when the body has no pushToken
BodyPushTokens == {None, "", "ptok2"}
SinceParams == {Null, Str(<<>>), Str(<<"0">>), Str(<<"1">>)}

\* a request as received: the route, its path parameters, the Authorization
\* header, the body's pushToken, the passesUpdatedSince parameter; then the
\* handler's position, the token it looked up and its response
NewRequest(route, lib, key, auth, pushToken, since) ==
    [pc |-> IF route = "list" THEN "list" ELSE "verify",
     route |-> route, deviceLibId |-> lib, passTypeId |-> key[1],
     serialNumber |-> key[2], authorization |-> auth, pushToken |-> pushToken,
     passesUpdatedSince |-> since, existingToken |-> None,
     status |-> 0, message |-> None, serialNumbers |-> <<>>, lastUpdated |-> Null]

WorkerRequests ==
    {NewRequest("register", l, k, a, pt, Null) :
        l \in WorkerLibs, k \in WorkerKeys, a \in AuthorizationHeaders,
        pt \in BodyPushTokens}
    \cup {NewRequest("unregister", l, k, a, None, Null) :
        l \in WorkerLibs, k \in WorkerKeys, a \in AuthorizationHeaders}
    \cup {NewRequest("latest", None, k, a, None, Null) :
        k \in WorkerKeys, a \in AuthorizationHeaders}
    \cup {NewRequest("list", l, <<ty, None>>, Null, None, since) :
        l \in WorkerLibs, ty \in PassTypeIdentifiers, since \in SinceParams}

\* json(data, status): the request, answered
json(req, message, status) ==
    [req EXCEPT !.pc = "done", !.status = status, !.message = message]

\* (variant: the catch answers as a failed verification does)
WorkerError_unauthorized(req) == json(req, "Unauthorized", 401)

\* the catch of the fetch handler: json({ error: err.message }, 500)
WorkerError(req) == json(req, "error", 500)

\* (variant: a pass that does not exist is answered 404)
verified_notFound(db, up, req) ==
    IF passesByTypeAndSerial(db, req.passTypeId, req.serialNumber) = {}
    THEN json(req, "Not found", 404)
    ELSE IF ~verifyAppleAuth(db, up, req.authorization, req.passTypeId, req.serialNumber)
    THEN json(req, "Unauthorized", 401)
    ELSE IF req.route = "register" /\ Falsy(req.pushToken)
    THEN json(req, "pushToken required", 400)
    ELSE IF req.route = "unregister" THEN [req EXCEPT !.pc = "unregister"]
    ELSE [req EXCEPT !.pc = "lookup"]

\* (variant: the body's pushToken is not looked at)
verified_anyBody(db, up, req) ==
    IF ~verifyAppleAuth(db, up, req.authorization, req.passTypeId, req.serialNumber)
    THEN json(req, "Unauthorized", 401)
    ELSE IF req.route = "unregister" THEN [req EXCEPT !.pc = "unregister"]
    ELSE [req EXCEPT !.pc = "lookup"]

\* the first step of the register, unregister and get-latest-pass routes:
\* verifyAppleAuth, and for register the body's pushToken
verified(db, up, req) ==
    IF ~verifyAppleAuth(db, up, req.authorization, req.passTypeId, req.serialNumber)
    THEN json(req, "Unauthorized", 401)
    ELSE IF req.route = "register" /\ Falsy(req.pushToken)
    THEN json(req, "pushToken required", 400)
    ELSE IF req.route = "unregister" THEN [req EXCEPT !.pc = "unregister"]
    ELSE [req EXCEPT !.pc = "lookup"]

\* (variant: the register route does not keep the token it looked up)
lookedUp_tokenDropped(db, up, built, req) ==
    LET existingToken == getPassAuthToken(db, req.passTypeId, req.serialNumber) IN
    IF ~up \/ existingToken.threw THEN WorkerError(req)
    ELSE IF req.route = "register" THEN [req EXCEPT !.pc = "register"]
    ELSE IF ~built THEN WorkerError(req)
    ELSE [req EXCEPT !.pc = "touch", !.existingToken = existingToken.token]

\* the second getPassAuthToken call of the register and get-latest-pass
\* routes.  built: buildPassBuffer returns (get-latest-pass only).
lookedUp(db, up, built, req) ==
    LET existingToken == getPassAuthToken(db, req.passTypeId, req.serialNumber) IN
    IF ~up \/ existingToken.threw THEN WorkerError(req)
    ELSE IF req.route = "register"
    THEN [req EXCEPT !.pc = "register", !.existingToken = existingToken.token]
    ELSE IF ~built THEN WorkerError(req)
    ELSE [req EXCEPT !.pc = "touch", !.existingToken = existingToken.token]

\* (variant: always 201)
registered_always201(req, isNew) == json(req, "Registration created", 201)

\* the response of the register route to registerDevice's result
registered(req, isNew) ==
    IF isNew THEN json(req, "Registration created", 201)
    ELSE json(req, "Registration already exists", 200)

\* (variant: 404 when nothing was deleted)
unregistered_notFound(req, deleted) ==
    IF deleted THEN json(req, "Registration deleted", 200)
    ELSE json(req, "No registration found", 404)

\* the response of the unregister route to unregisterDevice's result
unregistered(req, deleted) ==
    IF deleted THEN json(req, "Registration deleted", 200)
    ELSE json(req, "No registration found", 200)

\* (variant: an empty list is answered 200)
listed_always200(req, result) ==
    [json(req, None, 200) EXCEPT !.serialNumbers = result.serialNumbers,
                                  !.lastUpdated = result.lastUpdated]

\* the response of the list route to getPassesForDevice's result
listed(req, result) ==
    IF Len(result.serialNumbers) = 0 THEN json(req, None, 204)
    ELSE [json(req, None, 200) EXCEPT !.serialNumbers = result.serialNumbers,
                                      !.lastUpdated = result.lastUpdated]

StoreUnchanged == UNCHANGED <<devices, passes, registrations, supplied>>

\* the worker takes a request when it is handling none
WorkerReceive(r) ==
    /\ request.pc = "idle"
    /\ request' = r
    /\ StoreUnchanged
    /\ UNCHANGED <<now, tick>>

\* the response is sent
WorkerRespond ==
    /\ request.pc = "done"
    /\ request' = NoRequest
    /\ StoreUnchanged
    /\ UNCHANGED <<now, tick>>

WorkerVerify(up) ==
    /\ request.pc = "verify"
    /\ request' = verified(DB, up, request)
    /\ StoreUnchanged
    /\ UNCHANGED <<now, tick>>

WorkerLookup(up, built) ==
    /\ request.pc = "lookup"
    /\ request' = lookedUp(DB, up, built, request)
    /\ StoreUnchanged
    /\ UNCHANGED <<now, tick>>

WorkerRegister(up) ==
    LET token == IF Falsy(request.existingToken) THEN randomUUID
                 ELSE request.existingToken
        res == registerDevice(DB, now, request.deviceLibId, request.pushToken, request.passTypeId, request.serialNumber, token)
    IN  /\ request.pc = "register"
        /\ IF up /\ ~res.threw
           THEN /\ Commit(res.db)
                /\ supplied' = [supplied EXCEPT ![request.deviceLibId] = request.pushToken]
                /\ request' = registered(request, res.isNew)
           ELSE /\ StoreUnchanged
                /\ request' = WorkerError(request)
        /\ UNCHANGED <<now, tick>>

WorkerUnregister(up) ==
    LET res == unregisterDevice(DB, request.deviceLibId, request.passTypeId, request.serialNumber)
    IN  /\ request.pc = "unregister"
        /\ IF up /\ ~res.threw
           THEN /\ Commit(res.db)
                /\ supplied' = [x \in DOMAIN supplied |->
                      IF devicesByLibId(res.db, x) = {} THEN None ELSE supplied[x]]
                /\ request' = unregistered(request, res.deleted)
           ELSE /\ StoreUnchanged
                /\ request' = WorkerError(request)
        /\ UNCHANGED <<now, tick>>

\* the get-latest-pass route touches the pass it has built and serves it
WorkerTouch(up) ==
    LET res == touchPass(DB, now, request.passTypeId, request.serialNumber)
    IN  /\ request.pc = "touch"
        /\ IF up /\ ~res.threw
           THEN /\ Commit(res.db)
                /\ request' = json(request, "pkpass", 200)
           ELSE /\ UNCHANGED <<devices, passes, registrations>>
                /\ request' = WorkerError(request)
        /\ UNCHANGED <<now, supplied, tick>>

\* the list route: no Authorization is asked for
WorkerList(up) ==
    LET res == getPassesForDevice(DB, request.deviceLibId, request.passTypeId, orNull(orNull(request.passesUpdatedSince)))
    IN  /\ request.pc = "list"
        /\ request' = IF up /\ ~res.threw THEN listed(request, res)
                      ELSE WorkerError(request)
        /\ StoreUnchanged
        /\ UNCHANGED <<now, tick>>

\* the registerDevice calls of the other requests: they are made for the
\* second device, with the token the pass was issued with
WorkerStoreCalls ==
    {c \in RegisterCalls : c[1] = "dev2" /\ c[3] \in WorkerKeys /\ c[4] = "T1"}

WorkerStep ==
    \/ \E r \in WorkerRequests : WorkerReceive(r)
    \/ \E up \in BOOLEAN : WorkerVerify(up)
    \/ \E up \in BOOLEAN, built \in BOOLEAN : WorkerLookup(up, built)
    \/ \E up \in BOOLEAN : WorkerRegister(up)
    \/ \E up \in BOOLEAN : WorkerUnregister(up)
    \/ \E up \in BOOLEAN : WorkerTouch(up)
    \/ \E up \in BOOLEAN : WorkerList(up)
    \/ WorkerRespond

WorkerNext ==
    \/ WorkerStep
    \/ \E c \in WorkerStoreCalls : RegisterDeviceCall(c[1], c[2], c[3], c[4])
    \/ \E l \in DeviceLibraryIdentifiers, k \in WorkerKeys : UnregisterDeviceCall(l, k)
    \/ \E k \in WorkerKeys : TouchPassCall(k)
    \/ ClockAdvance

WorkerSpec == Init /\ [][WorkerNext]_vars

(***************************************************************************)
(* The dispatch tick: sendPushNotifications (convex/pushNotifications.js), *)
(* run by the cron of convex/crons.js.                                     *)
(*                                                                         *)
(* The action is not a transaction: it runs the query getAllPushTokens,    *)
(* then the mutation touchAllPasses, then sends one push per token over    *)
(* one HTTP/2 session and waits for all of them to settle.  Each of these  *)
(* is a step, and store calls of the requests run between the steps.       *)
(***************************************************************************)
\* the passes that passes.find((p) => p !== null) can return: the query
\* takes the first pass in the order of the registration rows, which the
\* tables here do not record
FirstPasses(db) ==
    LET found == {db.registrations[r].passId : r \in DOMAIN db.registrations}
                    \cap DOMAIN db.passes
    IN  IF found = {} THEN {None} ELSE found

\* (variant: one entry per registration row, without the Set of deviceIds)
getAllPushTokens_perRegistration(db, first) ==
    LET rows == collect(DOMAIN db.registrations)
        rs == SelectSeq(rows, LAMBDA r : db.registrations[r].deviceId \in DOMAIN db.devices)
        passTypeId == IF first \in DOMAIN db.passes
                      THEN db.passes[first].passTypeIdentifier ELSE ""
    IN  [k \in 1..Len(rs) |->
            [pushToken |-> db.devices[db.registrations[rs[k]].deviceId].pushToken,
             passTypeIdentifier |-> passTypeId]]

\* the query getAllPushTokens: one entry per device that has a registration
\* row, each with the passTypeIdentifier of the pass first
getAllPushTokens(db, first) ==
    LET deviceIds == collect({db.registrations[r].deviceId : r \in DOMAIN db.registrations})
        ds == SelectSeq(deviceIds, LAMBDA d : d \in DOMAIN db.devices)
        passTypeId == IF first \in DOMAIN db.passes
                      THEN db.passes[first].passTypeIdentifier ELSE ""
    IN  IF DOMAIN db.registrations = {} THEN <<>>
        ELSE [k \in 1..Len(ds) |-> [pushToken |-> db.devices[ds[k]].pushToken,
                                    passTypeIdentifier |-> passTypeId]]

\* a run: its position, the tokens it read, the requests it made on the
\* HTTP/2 session and their number, the state of each push, the session,
\* whether it has called touchAllPasses and the Date.now() of that call,
\* its counts, its last log line, whether it threw; and, of the cron job,
\* the number of its runs that are executing, whether a run that fell
\* due meanwhile was skipped, and the pushTokens whose push failed in the
\* last run before this one that counted its results
Run(pc, tokens, log, error) ==
    [pc |-> pc, tokens |-> tokens, sent |-> <<>>, results |-> <<>>,
     session |-> "none", calls |-> 0, touched |-> FALSE, touchedAt |-> 0,
     succeeded |-> 0, failed |-> 0, log |-> log, error |-> error,
     executing |-> 1, skipped |-> FALSE, failedBefore |-> {}]

\* the request sendPush makes: POST /3/device/<pushToken> with the header
\* apns-topic set to the passTypeIdentifier of the entry
sendPush(pushToken, passTypeIdentifier) ==
    [path |-> pushToken, topic |-> passTypeIdentifier]

\* the run ends with the exception of a step
Thrown(run) == [run EXCEPT !.pc = "done", !.error = TRUE]

\* the promise of a push: pending, fulfilled with the :status of the
\* response, or rejected
Pending == [status |-> "pending", value |-> 0]
Fulfilled(status) == [status |-> "fulfilled", value |-> status]
Rejected == [status |-> "rejected", value |-> 0]
Settlements == {Fulfilled(200), Fulfilled(410), Rejected}

\* (variant: an empty token list does not end the run)
started_noEarlyReturn(db, configured, up, first) ==
    IF ~configured THEN Run("done", <<>>, "Skipping push", FALSE)
    ELSE IF ~up THEN Thrown(Run("done", <<>>, None, FALSE))
    ELSE Run("touch", getAllPushTokens(db, first), None, FALSE)

\* (variant: the run goes on without the APNs settings)
started_noSettingsCheck(db, configured, up, first) ==
    IF ~up THEN Thrown(Run("done", <<>>, None, FALSE))
    ELSE IF Len(getAllPushTokens(db, first)) = 0
    THEN Run("done", <<>>, "No registered devices to notify", FALSE)
    ELSE Run("touch", getAllPushTokens(db, first), None, FALSE)

\* the run up to its first mutation: the APNs settings are read, then the
\* tokens.  configured: the three settings are set; up: the query answers.
started(db, configured, up, first) ==
    IF ~configured THEN Run("done", <<>>, "Skipping push", FALSE)
    ELSE IF ~up THEN Thrown(Run("done", <<>>, None, FALSE))
    ELSE IF Len(getAllPushTokens(db, first)) = 0
    THEN Run("done", <<>>, "No registered devices to notify", FALSE)
    ELSE Run("touch", getAllPushTokens(db, first), None, FALSE)

\* the session is opened and a push is sent for each token.  signed:
\* buildApnsJwt returns a token.
connected(run, signed) ==
    IF ~signed THEN Thrown(run)
    ELSE [run EXCEPT !.pc = "sending", !.session = "open",
                     !.sent = [k \in 1..Len(run.tokens) |->
                                 sendPush(run.tokens[k].pushToken,
                                          run.tokens[k].passTypeIdentifier)],
                     !.calls = Len(run.tokens),
                     !.results = [k \in 1..Len(run.tokens) |-> Pending],
                     !.log = "Sending push notifications"]

\* (variant: the session is not closed)
counted_sessionLeftOpen(run) ==
    LET ok == {k \in 1..Len(run.results) : run.results[k] = Fulfilled(200)} IN
    [run EXCEPT !.pc = "done", !.log = "Push results",
                !.succeeded = Cardinality(ok),
                !.failed = Len(run.results) - Cardinality(ok)]

\* (variant: every fulfilled push counts as succeeded)
counted_anyFulfilled(run) ==
    LET ok == {k \in 1..Len(run.results) : run.results[k].status = "fulfilled"} IN
    [run EXCEPT !.pc = "done", !.session = "closed", !.log = "Push results",
                !.succeeded = Cardinality(ok),
                !.failed = Len(run.results) - Cardinality(ok)]

\* (variant: the loop stops at the first push that did not succeed)
counted_untilFailure(run) ==
    LET bad == {k \in 1..Len(run.results) : run.results[k] # Fulfilled(200)}
        upTo == IF bad = {} THEN Len(run.results)
                ELSE (CHOOSE k \in bad : \A j \in bad : k <= j) - 1 IN
    [run EXCEPT !.pc = "done", !.session = "closed", !.log = "Push results",
                !.succeeded = upTo,
                !.failed = IF bad = {} THEN 0 ELSE 1]

\* the counting loop over the settled results, and session.close()
counted(run) ==
    LET ok == {k \in 1..Len(run.results) :
                  /\ run.results[k].status = "fulfilled"
                  /\ run.results[k].value = 200} IN
    [run EXCEPT !.pc = "done", !.session = "closed", !.log = "Push results",
                !.succeeded = Cardinality(ok),
                !.failed = Len(run.results) - Cardinality(ok)]

\* the runs of the cron job that are executing
Executing(run) == IF run.pc = "idle" THEN 0 ELSE run.executing

\* (variant: a run starts whenever the interval has elapsed)
due_always(run) == TRUE

\* crons.interval registers the action as a cron job: when the interval has
\* elapsed, the scheduler starts a run only if no run of the job is
\* executing (at most one run of a cron job executes at a time; a run that
\* falls due while one is executing is skipped)
due(run) == run.pc = "idle"

\* (variant: a run leaves out the pushTokens whose push failed before)
TickStart_dropFailed(configured, up, first) ==
    LET run == started(DB, configured, up, first) IN
    /\ due(tick)
    /\ tick' = [run EXCEPT
                   !.tokens = SelectSeq(run.tokens,
                                 LAMBDA e : e.pushToken \notin tick.failedBefore),
                   !.executing = Executing(tick) + 1,
                   !.failedBefore = tick.failedBefore]
    /\ UNCHANGED <<devices, passes, registrations, supplied>>
    /\ UNCHANGED <<now, request>>

\* the interval has elapsed and the cron starts a run
TickStart(configured, up, first) ==
    /\ due(tick)
    /\ tick' = [started(DB, configured, up, first) EXCEPT
                   !.executing = Executing(tick) + 1,
                   !.failedBefore = tick.failedBefore]
    /\ StoreUnchanged
    /\ UNCHANGED <<now, request>>

\* the interval has elapsed while a run is executing (it waits for its
\* pushes to settle): no run starts
TickSkip ==
    /\ ~due(tick)
    /\ tick.pc = "sending"
    /\ ~tick.skipped
    /\ tick' = [tick EXCEPT !.skipped = TRUE]
    /\ StoreUnchanged
    /\ UNCHANGED <<now, request>>

TickTouch(up) ==
    /\ tick.pc = "touch"
    /\ IF up
       THEN /\ Commit(touchAllPasses(DB, now).db)
            /\ tick' = [tick EXCEPT !.pc = "connect", !.touched = TRUE,
                                    !.touchedAt = now]
       ELSE /\ UNCHANGED <<devices, passes, registrations>>
            /\ tick' = Thrown(tick)
    /\ UNCHANGED <<now, supplied, request>>

\* (variant: the tokens are read again when the session is opened)
TickConnect_reload(signed) ==
    /\ tick.pc = "connect"
    /\ tick' = connected([tick EXCEPT !.tokens =
                             getAllPushTokens(DB, CHOOSE f \in FirstPasses(DB) : TRUE)],
                         signed)
    /\ StoreUnchanged
    /\ UNCHANGED <<now, request>>

TickConnect(signed) ==
    /\ tick.pc = "connect"
    /\ tick' = connected(tick, signed)
    /\ StoreUnchanged
    /\ UNCHANGED <<now, request>>

\* the push of the k-th token settles
TickSettle(k, settlement) ==
    /\ tick.pc = "sending"
    /\ k \in 1..Len(tick.results)
    /\ tick.results[k] = Pending
    /\ tick' = [tick EXCEPT !.results[k] = settlement]
    /\ StoreUnchanged
    /\ UNCHANGED <<now, request>>

\* Promise.allSettled resolves when no push is pending
TickCount ==
    /\ tick.pc = "sending"
    /\ \A k \in 1..Len(tick.results) : tick.results[k] # Pending
    /\ tick' = counted(tick)
    /\ StoreUnchanged
    /\ UNCHANGED <<now, request>>

\* the pushTokens whose push the run counted as failed
FailedTokens(run) ==
    {run.tokens[k].pushToken :
        k \in {j \in 1..Len(run.results) : run.results[j] # Fulfilled(200)}}

\* what is left of a run when it is over
returned(run) ==
    Idle(IF run.log = "Push results" THEN FailedTokens(run) ELSE run.failedBefore)

\* the run is over
TickReturn ==
    /\ tick.pc = "done"
    /\ tick' = returned(tick)
    /\ StoreUnchanged
    /\ UNCHANGED <<now, request>>

TickStep ==
    \/ \E configured \in BOOLEAN, up \in BOOLEAN, first \in FirstPasses(DB) :
          TickStart(configured, up, first)
    \/ TickSkip
    \/ \E up \in BOOLEAN : TickTouch(up)
    \/ \E signed \in BOOLEAN : TickConnect(signed)
    \/ \E k \in 1..Cardinality(DeviceLibraryIdentifiers), settlement \in Settlements :
          TickSettle(k, settlement)
    \/ TickCount
    \/ TickReturn

\* the registerDevice calls made while runs go on: two devices, each with
\* a pushToken of its own; cards of two types, both of which the first
\* device registers for
TickStoreCalls ==
    {c \in RegisterCalls : /\ c[1] = "dev1" => c[2] = "ptok2"
                           /\ c[1] = "dev2" => c[3][1] = "pass.b"
                           /\ c[4] = "T1"
                           /\ c[3] \in {<<"pass.a", "s1">>, <<"pass.b", "s1">>}}

TickNext ==
    \/ TickStep
    \/ \E c \in TickStoreCalls : RegisterDeviceCall(c[1], c[2], c[3], c[4])
    \/ \E l \in DeviceLibraryIdentifiers, k \in PassKeys : UnregisterDeviceCall(l, k)
    \/ ClockAdvance

TickSpec == Init /\ [][TickNext]_vars

\* The cron fires every 10 seconds for ever, so a run is started again and
\* again; the APNs settings are set, the store answers and buildApnsJwt
\* signs again and again (not necessarily every time); every request on the
\* session gets its response or its error, and a handler that can go on
\* does.  Nothing is assumed of the store calls of the requests.
TickFairness ==
    /\ SF_vars(\E first \in FirstPasses(DB) : TickStart(TRUE, TRUE, first))
    /\ SF_vars(TickTouch(TRUE))
    /\ SF_vars(TickConnect(TRUE))
    /\ WF_vars(\E k \in 1..Cardinality(DeviceLibraryIdentifiers), settlement \in Settlements :
                  TickSettle(k, settlement))
    /\ WF_vars(TickCount)
    /\ WF_vars(TickReturn)

TickFairSpec == Init /\ [][TickNext]_vars /\ TickFairness

(***************************************************************************)
(* Properties                                                              *)
(***************************************************************************)

\* the registration rows between the device of library id l and the card k
RegistrationRows(db, l, k) ==
    {r \in DOMAIN db.registrations :
        /\ \E d \in DOMAIN db.devices :
              /\ db.devices[d].deviceLibraryIdentifier = l
              /\ db.registrations[r].deviceId = d
        /\ \E p \in DOMAIN db.passes :
              /\ db.passes[p].passTypeIdentifier = k[1]
              /\ db.passes[p].serialNumber = k[2]
              /\ db.registrations[r].passId = p}

\* the registration rows of the device of library id l
SubscribedRows(db, l) ==
    {r \in DOMAIN db.registrations :
        \E d \in DOMAIN db.devices :
           /\ db.devices[d].deviceLibraryIdentifier = l
           /\ db.registrations[r].deviceId = d}

\* the passes nobody is registered to: each was left by an unregisterDevice
UnsubscribedPasses ==
    {p \in DOMAIN passes : \A r \in DOMAIN registrations : registrations[r].passId # p}

Register(db, c) == registerDevice(db, now, c[1], c[2], c[3][1], c[3][2], c[4])

\* C1: registerDevice for a pair (device, card) returns isNew = TRUE exactly
\* when the pair had no registration row, a repeated registerDevice for the
\* pair returns isNew = FALSE, and after either call the pair has exactly one
\* registration row.
C1_IdempotentSubscribe ==
    \A c \in RegisterCalls, c2 \in RegisterCalls :
        (c2[1] = c[1] /\ c2[3] = c[3]) =>
            LET first == Register(DB, c)
                second == Register(first.db, c2)
            IN  /\ ~first.threw
                /\ ~second.threw
                /\ first.isNew = (RegistrationRows(DB, c[1], c[3]) = {})
                /\ ~second.isNew
                /\ Cardinality(RegistrationRows(first.db, c[1], c[3])) = 1
                /\ Cardinality(RegistrationRows(second.db, c[1], c[3])) = 1

\* a pair is registered, and registering it again answers isNew = FALSE
C1_Witness ==
    \E c \in RegisterCalls :
        /\ Cardinality(RegistrationRows(DB, c[1], c[3])) = 1
        /\ ~Register(DB, c).isNew
        /\ Register(DB, c).db.registrations = registrations

\* C2: no step changes the authenticationToken of an existing pass row.
C2_TokenImmutable ==
    [][\A p \in DOMAIN passes :
          p \in DOMAIN passes' =>
             passes'[p].authenticationToken = passes[p].authenticationToken]_vars

\* C3: when the device of library id l has exactly one registration row, to
\* card k, unregisterDevice(l, k) answers deleted = TRUE and leaves neither
\* that registration row nor the device row.
C3_LastUnsubscribeDeletesDevice ==
    \A l \in DeviceLibraryIdentifiers, k \in PassKeys :
        LET res == unregisterDevice(DB, l, k[1], k[2])
            dev == devicesByLibId(DB, l)
        IN  (/\ Cardinality(RegistrationRows(DB, l, k)) = 1
             /\ SubscribedRows(DB, l) = RegistrationRows(DB, l, k)) =>
               /\ ~res.threw
               /\ res.deleted
               /\ devicesByLibId(res.db, l) = {}
               /\ dev \cap DOMAIN res.db.devices = {}
               /\ RegistrationRows(DB, l, k) \cap DOMAIN res.db.registrations = {}
               /\ \A r \in DOMAIN res.db.registrations :
                     res.db.registrations[r].deviceId \notin dev

\* a device with one registration only, beside another device
C3_Witness ==
    \E l \in DeviceLibraryIdentifiers, k \in PassKeys :
        /\ Cardinality(RegistrationRows(DB, l, k)) = 1
        /\ SubscribedRows(DB, l) = RegistrationRows(DB, l, k)
        /\ Cardinality(DOMAIN devices) = 2
        /\ unregisterDevice(DB, l, k[1], k[2]).deleted

\* C4: when the device of library id l is registered to cards k and k2,
\* unregisterDevice(l, k) deletes the registration rows of (l, k) and changes
\* nothing else: the devices table (so the device row and its pushToken), the
\* passes and every other registration row stay as they were.
C4_UnsubscribeKeepsOtherCards ==
    \A l \in DeviceLibraryIdentifiers, k \in PassKeys, k2 \in PassKeys :
        LET res == unregisterDevice(DB, l, k[1], k[2]) IN
        (/\ k # k2
         /\ RegistrationRows(DB, l, k) # {}
         /\ RegistrationRows(DB, l, k2) # {}) =>
           /\ ~res.threw
           /\ res.deleted
           /\ res.db.devices = devices
           /\ res.db.passes = passes
           /\ res.db.registrations =
                 [r \in DOMAIN registrations \ RegistrationRows(DB, l, k) |->
                     registrations[r]]

\* a device registered to two cards, one of which another device shares
C4_Witness ==
    \E l \in DeviceLibraryIdentifiers, l2 \in DeviceLibraryIdentifiers,
       k \in PassKeys, k2 \in PassKeys :
        /\ k # k2
        /\ l # l2
        /\ RegistrationRows(DB, l, k) # {}
        /\ RegistrationRows(DB, l, k2) # {}
        /\ RegistrationRows(DB, l2, k) # {}
        /\ unregisterDevice(DB, l, k[1], k[2]).deleted

\* C5: every device row has at least one registration row.
C5_NoOrphanDevice ==
    \A d \in DOMAIN devices : \E r \in DOMAIN registrations :
        registrations[r].deviceId = d

\* one device was collected with its last registration, the other one stays
C5_Witness ==
    /\ Cardinality(DOMAIN devices) = 1
    /\ Cardinality(DOMAIN registrations) = 1
    /\ Cardinality(UnsubscribedPasses) = 2

\* C6: every registration row references a device row and a pass row of the store.
C6_ReferentialIntegrity ==
    \A r \in DOMAIN registrations :
        /\ registrations[r].deviceId \in DOMAIN devices
        /\ registrations[r].passId \in DOMAIN passes

\* registrations remain beside a pass that lost all of its registrations
C6_Witness ==
    /\ Cardinality(DOMAIN registrations) >= 3
    /\ Cardinality(DOMAIN devices) = 2
    /\ UnsubscribedPasses # {}

\* C7: there is at most one pass row for each (passTypeIdentifier, serialNumber).
C7_UniquePassPerKey ==
    \A p \in DOMAIN passes, q \in DOMAIN passes :
        (/\ passes[p].passTypeIdentifier = passes[q].passTypeIdentifier
         /\ passes[p].serialNumber = passes[q].serialNumber) => p = q

\* every card is present, and one card was named by registerDevice calls of
\* two devices
C7_Witness ==
    /\ Cardinality(DOMAIN passes) = Cardinality(PassKeys)
    /\ \E p \in DOMAIN passes :
          Cardinality({r \in DOMAIN registrations : registrations[r].passId = p}) = 2

\* C8: the pushToken of every device row is the pushToken of the latest
\* registerDevice call for its deviceLibraryIdentifier since the row was created.
C8_PushTokenIsLatestSupplied ==
    \A d \in DOMAIN devices :
        devices[d].pushToken = supplied[devices[d].deviceLibraryIdentifier]

\* two devices hold different pushTokens, each from its latest call
C8_Witness ==
    \E d \in DOMAIN devices, e \in DOMAIN devices :
        /\ devices[d].pushToken # devices[e].pushToken
        /\ supplied[devices[d].deviceLibraryIdentifier] = "ptok2"
        /\ Cardinality(SubscribedRows(DB, devices[d].deviceLibraryIdentifier)) >= 2

\* C9: no step removes a pass row or lowers its lastUpdated.
C9_LastUpdatedMonotone ==
    [][\A p \in DOMAIN passes :
          /\ p \in DOMAIN passes'
          /\ passes'[p].lastUpdated >= passes[p].lastUpdated]_vars

\* passes carry different lastUpdated values, none ahead of the clock
C9_Witness ==
    \E p \in DOMAIN passes, q \in DOMAIN passes :
        /\ passes[p].lastUpdated < passes[q].lastUpdated
        /\ passes[q].lastUpdated = now
        /\ now = MaxClock

\* the passes of type ty the device of library id l is registered to
SubscribedPassesOfType(l, ty) ==
    {p \in DOMAIN passes :
        /\ passes[p].passTypeIdentifier = ty
        /\ \E r \in SubscribedRows(DB, l) : registrations[r].passId = p}

\* list lists the serialNumber of each pass of ps once per pass, and nothing else
ListsSerialsOf(list, ps) ==
    /\ Len(list) = Cardinality(ps)
    /\ \A k \in 1..Len(list) :
          Cardinality({j \in 1..Len(list) : list[j] = list[k]}) =
             Cardinality({p \in ps : passes[p].serialNumber = list[k]})
    /\ \A p \in ps : \E k \in 1..Len(list) : list[k] = passes[p].serialNumber

\* C10: getPassesForDevice(l, ty, since) returns the serial numbers of exactly
\* the passes of type ty that the device of library id l is registered to and
\* whose lastUpdated is greater than since, for since the decimal numeral of
\* n; with since undefined or null, of every pass of type ty it is registered to.
C10_PollReturnsUpdatedPasses ==
    \A l \in DeviceLibraryIdentifiers, ty \in PassTypeIdentifiers :
        /\ \A n \in 0..MaxSince :
              LET res == getPassesForDevice(DB, l, ty, Str(toString(n))) IN
              /\ ~res.threw
              /\ ListsSerialsOf(res.serialNumbers,
                    {p \in SubscribedPassesOfType(l, ty) : passes[p].lastUpdated > n})
        /\ \A since \in {Undefined, Null} :
              LET res == getPassesForDevice(DB, l, ty, since) IN
              /\ ~res.threw
              /\ ListsSerialsOf(res.serialNumbers, SubscribedPassesOfType(l, ty))

\* a device registered to two passes of one type and one of another, beside
\* another device: a poll returns only the pass updated after since
C10_Witness ==
    \E l \in DeviceLibraryIdentifiers, ty \in PassTypeIdentifiers, n \in 1..MaxSince :
        /\ Cardinality(SubscribedPassesOfType(l, ty)) = 2
        /\ \E ty2 \in PassTypeIdentifiers \ {ty} : SubscribedPassesOfType(l, ty2) # {}
        /\ Cardinality(DOMAIN devices) = 2
        /\ Len(getPassesForDevice(DB, l, ty, Str(toString(n))).serialNumbers) = 1

\* the passes a poll of l for type ty returned: the subscribed passes of the
\* type whose serial number is in the list
ReturnedPasses(l, ty, list) ==
    {p \in SubscribedPassesOfType(l, ty) :
        \E k \in 1..Len(list) : list[k] = passes[p].serialNumber}

\* v is the greatest lastUpdated of the passes ps
IsGreatestLastUpdated(v, ps) ==
    /\ \E p \in ps : passes[p].lastUpdated = v
    /\ \A p \in ps : passes[p].lastUpdated <= v

\* C11: whenever getPassesForDevice returns a non-empty serial list, the
\* lastUpdated it returns is the decimal numeral of the greatest lastUpdated
\* of the returned passes, and that number is strictly greater than the since
\* value supplied (n for the numeral of n, 0 for undefined and null).
C11_LastUpdatedIsMaxOfReturned ==
    \A l \in DeviceLibraryIdentifiers, ty \in PassTypeIdentifiers :
        \A n \in 0..MaxSince : \A since \in {Undefined, Null, Str(toString(n))} :
            LET res == getPassesForDevice(DB, l, ty, since)
                floor == IF since.kind = "string" THEN n ELSE 0
            IN  res.serialNumbers # <<>> =>
                  /\ res.lastUpdated.kind = "string"
                  /\ ~parseInt(res.lastUpdated.chars).nan
                  /\ res.lastUpdated.chars = toString(parseInt(res.lastUpdated.chars).value)
                  /\ IsGreatestLastUpdated(parseInt(res.lastUpdated.chars).value,
                                           ReturnedPasses(l, ty, res.serialNumbers))
                  /\ parseInt(res.lastUpdated.chars).value > floor

\* a poll returns two passes whose lastUpdated differ, with since = 0
C11_Witness ==
    \E l \in DeviceLibraryIdentifiers, ty \in PassTypeIdentifiers :
        LET res == getPassesForDevice(DB, l, ty, Str(toString(0))) IN
        /\ Len(res.serialNumbers) = 2
        /\ \E p, q \in ReturnedPasses(l, ty, res.serialNumbers) :
              passes[p].lastUpdated < passes[q].lastUpdated
        /\ res.lastUpdated = Str(toString(MaxClock))

(***************************************************************************)
(* Properties of the worker's routes                                       *)
(***************************************************************************)
\* the pass rows of the card a request names
CardRows(req) ==
    {p \in DOMAIN passes : /\ passes[p].passTypeIdentifier = req.passTypeId
                           /\ passes[p].serialNumber = req.serialNumber}

\* the request's Authorization header is "ApplePass " followed by token
Presents(req, token) ==
    req.authorization = Str(ApplePassPrefix \o CharsOf(token))

CardMissing(req) == CardRows(req) = {}
TokenWrong(req) ==
    /\ CardRows(req) # {}
    /\ \A p \in CardRows(req) : ~Presents(req, passes[p].authenticationToken)
TokenValid(req) ==
    \E p \in CardRows(req) : Presents(req, passes[p].authenticationToken)

\* what the caller sees of an answered request
Response(req) ==
    [status |-> req.status, message |-> req.message,
     serialNumbers |-> req.serialNumbers, lastUpdated |-> req.lastUpdated]

Unauthorized401 ==
    [status |-> 401, message |-> "Unauthorized",
     serialNumbers |-> <<>>, lastUpdated |-> Null]

AuthenticatedRequests == {r \in WorkerRequests : r.route # "list"}

\* the step the worker takes on the request it is handling
WorkerStepTaken == request' # request

\* C12: a register, unregister or get-latest-pass request whose card does
\* not exist and one whose card exists but whose token is wrong get one and
\* the same response, 401 with the body "Unauthorized", whether or not the
\* store answers the lookup: nothing in the response tells the two apart.
C12_RejectionIsUniform ==
    \A r \in AuthenticatedRequests, up \in BOOLEAN :
        (CardMissing(r) \/ TokenWrong(r)) =>
            LET answered == verified(DB, up, r) IN
            /\ answered.pc = "done"
            /\ Response(answered) = Unauthorized401

\* a request with a wrong token for a card that exists has been answered,
\* while the same request for another card, which does not exist, could be made
C12_Witness ==
    /\ request.pc = "done"
    /\ request.route = "register"
    /\ TokenWrong(request)
    /\ Response(request) = Unauthorized401
    /\ \E token \in AuthenticationTokens : Presents(request, token)
    /\ \E r \in AuthenticatedRequests :
          /\ CardMissing(r)
          /\ r.authorization = request.authorization

\* C13: the step the worker takes on a register, unregister or
\* get-latest-pass request whose token is wrong or whose card does not exist
\* answers it 401 and changes no row; an answered request takes no further
\* step but the sending of the response, which changes no row either.
C13_BadTokenChangesNothing ==
    [][/\ (request.pc = "verify" /\ WorkerStepTaken
              /\ (CardMissing(request) \/ TokenWrong(request)))
           => /\ request'.pc = "done"
              /\ request'.status = 401
              /\ UNCHANGED <<devices, passes, registrations>>
       /\ (request.pc = "done" /\ WorkerStepTaken)
           => /\ request' = NoRequest
              /\ UNCHANGED <<devices, passes, registrations>>]_vars

\* a get-latest-pass request with a wrong token was answered 401 for a pass
\* that a touch would have changed
C13_Witness ==
    /\ request.pc = "done"
    /\ request.route = "latest"
    /\ request.status = 401
    /\ TokenWrong(request)
    /\ \E p \in CardRows(request) : passes[p].lastUpdated < now
    /\ DOMAIN registrations # {}

\* C14: the step in which a register request (its token verified, its
\* pushToken non-empty) calls registerDevice answers 201 exactly when the
\* (device, card) registration did not exist before and exists after,
\* and, unless the store fails (500, nothing changed), 200 exactly when the
\* registration existed before.
C14_SubscribeStatus ==
    [][(request.pc = "register" /\ WorkerStepTaken) =>
          LET k == <<request.passTypeId, request.serialNumber>>
              existed == RegistrationRows(DB, request.deviceLibId, k) # {}
              existsAfter == RegistrationRows(DB', request.deviceLibId, k) # {}
          IN  /\ request.route = "register"
              /\ ~Falsy(request.pushToken)
              /\ request'.pc = "done"
              /\ request'.status \in {200, 201, 500}
              /\ request'.status = 201 <=> (~existed /\ existsAfter)
              /\ request'.status = 200 => existed
              /\ (existed /\ request'.status # 500) => request'.status = 200
              /\ request'.status = 500 => UNCHANGED <<devices, passes, registrations>>]_vars

\* a device was answered 200 for a registration it had, with another
\* registration in the store that was answered 201
C14_Witness ==
    /\ request.pc = "done"
    /\ request.route = "register"
    /\ request.status = 200
    /\ Cardinality(SubscribedRows(DB, request.deviceLibId)) = 2

\* C15: a register request with a valid token and a missing or empty
\* pushToken is answered 400 when the store answers the token lookup, and
\* the step that answers it ends the request and changes no row.
C15_MissingPushTokenIs400 ==
    /\ [](\A r \in AuthenticatedRequests :
            (r.route = "register" /\ TokenValid(r) /\ r.pushToken \in {None, ""})
               => Response(verified(DB, TRUE, r)) =
                    [Unauthorized401 EXCEPT !.status = 400,
                                            !.message = "pushToken required"])
    /\ [][(/\ request.pc = "verify" /\ WorkerStepTaken
           /\ request.route = "register"
           /\ request.pushToken \in {None, ""})
             => /\ request'.pc = "done"
                /\ request'.status \in {400, 401}
                /\ UNCHANGED <<devices, passes, registrations>>]_vars

\* a register request with a valid token and an empty pushToken was
\* answered 400, for a device that is not registered yet
C15_Witness ==
    /\ request.pc = "done"
    /\ request.route = "register"
    /\ request.status = 400
    /\ request.pushToken = ""
    /\ TokenValid(request)
    /\ devicesByLibId(DB, request.deviceLibId) = {}
    /\ DOMAIN devices # {}

\* C16: the step in which an unregister request (its token verified) calls
\* unregisterDevice answers 200 whether or not a row was deleted, unless the
\* store fails; and unregisterDevice, called for a device and a card between
\* which there is no registration (the device, the card or the registration
\* is missing), returns deleted = false, does not throw and changes no row.
C16_UnsubscribeAlways200 ==
    /\ [](\A l \in DeviceLibraryIdentifiers, k \in PassKeys :
            RegistrationRows(DB, l, k) = {} =>
               LET res == unregisterDevice(DB, l, k[1], k[2]) IN
               ~res.threw /\ ~res.deleted /\ res.db = DB)
    /\ [][(request.pc = "unregister" /\ WorkerStepTaken) =>
             /\ request'.pc = "done"
             /\ request'.status \in {200, 500}
             /\ request'.status = 500 => UNCHANGED <<devices, passes, registrations>>
             /\ (request'.status = 200 /\ registrations' = registrations)
                   => request'.message = "No registration found"
             /\ (request'.status = 200 /\ registrations' # registrations)
                   => request'.message = "Registration deleted"]_vars

\* an unregister request with a valid token was answered 200 though the
\* device has no registration for the card, while it has one for another card
C16_Witness ==
    /\ request.pc = "done"
    /\ request.route = "unregister"
    /\ request.status = 200
    /\ request.message = "No registration found"
    /\ SubscribedRows(DB, request.deviceLibId) # {}

ListRequests == {r \in WorkerRequests : r.route = "list"}

\* the number a passesUpdatedSince parameter stands for
SinceValue(x) ==
    CASE x = Str(<<"0">>) -> 0
      [] x = Str(<<"1">>) -> 1
      [] OTHER -> 0

\* the subscribed passes of the request's type updated after its since value
MatchingPasses(r) ==
    {p \in SubscribedPassesOfType(r.deviceLibId, r.passTypeId) :
        passes[p].lastUpdated > SinceValue(r.passesUpdatedSince)}

\* what getPassesForDevice returns to the list route, and the route's answer
ListResult(r) ==
    getPassesForDevice(DB, r.deviceLibId, r.passTypeId, orNull(orNull(r.passesUpdatedSince)))
ListAnswer(r) == Response(listed(r, ListResult(r)))

NoContent204 ==
    [status |-> 204, message |-> None, serialNumbers |-> <<>>, lastUpdated |-> Null]
NothingReturned ==
    [threw |-> FALSE, serialNumbers |-> <<>>, lastUpdated |-> Null]

\* C17 as stated: a device with zero subscriptions gets the no-content
\* answer, and a device that has subscriptions none of which changed since
\* the given timestamp gets something else, in the query's result or in the
\* route's response.
C17_EmptyListDistinctFromNoContent ==
    \A r \in ListRequests :
        /\ SubscribedRows(DB, r.deviceLibId) = {} => ListAnswer(r) = NoContent204
        /\ (SubscribedRows(DB, r.deviceLibId) # {} /\ MatchingPasses(r) = {})
              => (ListAnswer(r) # NoContent204 \/ ListResult(r) # NothingReturned)

\* C17 as amended: a device with zero subscriptions and a device that has
\* subscriptions none of which is a card of the type changed since the given
\* timestamp get the same thing: getPassesForDevice returns an empty list
\* with a null lastUpdated, and the route answers 204 with no body.
C17_NoContentEitherWay ==
    \A r \in ListRequests :
        (SubscribedRows(DB, r.deviceLibId) = {} \/ MatchingPasses(r) = {})
            => /\ ListResult(r) = NothingReturned
               /\ ListAnswer(r) = NoContent204

\* a list request was answered 204 for a device that is subscribed to a
\* card of the type, unchanged since the timestamp asked for
C17_Witness ==
    /\ request.pc = "done"
    /\ request.route = "list"
    /\ Response(request) = NoContent204
    /\ SubscribedPassesOfType(request.deviceLibId, request.passTypeId) # {}
    /\ MatchingPasses(request) = {}
    /\ ListAnswer(request) = NoContent204

\* C18: the step that answers a list request answers 200, with the serial
\* numbers of the subscribed cards of the type updated after the since value
\* and the greatest lastUpdated among them, only when there is such a card,
\* and 204 only when there is none; it answers nothing else unless the store
\* fails (500), and changes no row.
C18_ListStatus ==
    [][(request.pc = "list" /\ WorkerStepTaken) =>
          /\ request'.pc = "done"
          /\ request'.status \in {200, 204, 500}
          /\ request'.status = 200 =>
                /\ MatchingPasses(request) # {}
                /\ ListsSerialsOf(request'.serialNumbers, MatchingPasses(request))
                /\ request'.lastUpdated.kind = "string"
                /\ IsGreatestLastUpdated(parseInt(request'.lastUpdated.chars).value,
                                         MatchingPasses(request))
          /\ request'.status = 204 =>
                /\ MatchingPasses(request) = {}
                /\ Response(request') = NoContent204
          /\ UNCHANGED <<devices, passes, registrations>>]_vars

\* a list request with a since value was answered 200 with one of the two
\* cards of the type the device is subscribed to
C18_Witness ==
    /\ request.pc = "done"
    /\ request.route = "list"
    /\ request.status = 200
    /\ request.passesUpdatedSince = Str(<<"1">>)
    /\ Len(request.serialNumbers) = 1
    /\ Cardinality(SubscribedPassesOfType(request.deviceLibId, request.passTypeId)) = 2

(***************************************************************************)
(* Properties of the dispatch tick                                         *)
(***************************************************************************)
\* the push targets: the devices that have a registration row
PushTargets(db) ==
    {d \in DOMAIN db.devices :
        \E r \in DOMAIN db.registrations : db.registrations[r].deviceId = d}

\* the step the run in progress takes
TickStepTaken == tick' # tick

\* C19: a run that starts when there is no push target ends in its first
\* step: it sends no push, opens no session and does not call
\* touchAllPasses, and no row changes; with the settings set and the query
\* answered it logs that there is no device to notify and does not throw.
C19_NoTargetsNoWork ==
    /\ [](PushTargets(DB) = {} =>
            \A first \in FirstPasses(DB) :
                started(DB, TRUE, TRUE, first) =
                    Run("done", <<>>, "No registered devices to notify", FALSE))
    /\ [][(tick.pc = "idle" /\ TickStepTaken /\ PushTargets(DB) = {}) =>
             /\ tick'.pc = "done"
             /\ tick'.tokens = <<>>
             /\ tick'.calls = 0
             /\ tick'.session = "none"
             /\ ~tick'.touched
             /\ UNCHANGED <<devices, passes, registrations>>]_vars

\* a run found no target and ended without a call, while passes that
\* touchAllPasses would have bumped are in the store
C19_Witness ==
    /\ tick.pc = "done"
    /\ tick.log = "No registered devices to notify"
    /\ ~tick.error
    /\ tick.calls = 0
    /\ tick.session = "none"
    /\ PushTargets(DB) = {}
    /\ \E p \in DOMAIN passes : passes[p].lastUpdated < now

\* C20: when a run has counted its results, succeeded + failed is the
\* number of tokens the run read, a push was sent for each of them, and
\* succeeded is the number of pushes fulfilled with status 200; a step
\* of a run that has opened its session (a push settling, whatever the
\* outcome, and the counting) changes no row.
C20_CountsAddUp ==
    /\ []((tick.pc = "done" /\ tick.log = "Push results") =>
            /\ tick.succeeded + tick.failed = Len(tick.tokens)
            /\ tick.calls = Len(tick.tokens)
            /\ Len(tick.results) = Len(tick.tokens)
            /\ tick.succeeded =
                  Cardinality({k \in 1..Len(tick.results) :
                                  tick.results[k] = Fulfilled(200)})
            /\ tick.session = "closed")
    /\ [][(tick.pc = "sending" /\ TickStepTaken) =>
             UNCHANGED <<devices, passes, registrations>>]_vars

\* a run with two targets ended with one push succeeded and one answered 410
C20_Witness ==
    /\ tick.pc = "done"
    /\ tick.log = "Push results"
    /\ tick.succeeded = 1
    /\ tick.failed = 1
    /\ \E k \in 1..Len(tick.results) : tick.results[k] = Fulfilled(410)
    /\ Cardinality(PushTargets(DB)) = 2

\* the entry a registration row stands for: the pushToken of its device and
\* the passTypeIdentifier of its pass
EntryOf(db, r) ==
    [pushToken |-> db.devices[db.registrations[r].deviceId].pushToken,
     passTypeIdentifier |-> db.passes[db.registrations[r].passId].passTypeIdentifier]

\* the number of entries of a list equal to e
Occurrences(tokens, e) == Cardinality({k \in 1..Len(tokens) : tokens[k] = e})

\* C21: the list getAllPushTokens returns has one entry per registration
\* row, each with the pushToken of the row's device and the
\* passTypeIdentifier of the row's pass.
C21_OneEntryPerSubscription ==
    \A first \in FirstPasses(DB) :
        LET tokens == getAllPushTokens(DB, first) IN
        /\ Len(tokens) = Cardinality(DOMAIN registrations)
        /\ \A r \in DOMAIN registrations :
              Occurrences(tokens, EntryOf(DB, r)) =
                 Cardinality({q \in DOMAIN registrations : EntryOf(DB, q) = EntryOf(DB, r)})

\* a device with the pushToken is registered for a pass of the type
SubscribedToType(db, pushToken, passTypeIdentifier) ==
    \E r \in DOMAIN db.registrations :
        EntryOf(db, r) = [pushToken |-> pushToken,
                          passTypeIdentifier |-> passTypeIdentifier]

\* C22: the apns-topic of the request sendPush makes for an entry the run
\* read is the passTypeIdentifier of a pass that the device with the
\* entry's pushToken was registered for when the run read its tokens.
C22_TopicIsSubscribedType ==
    [][(tick.pc = "idle" /\ TickStepTaken) =>
          \A k \in 1..Len(tick'.tokens) :
              LET e == tick'.tokens[k] IN
              SubscribedToType(DB, e.pushToken,
                               sendPush(e.pushToken, e.passTypeIdentifier).topic)]_vars

\* the registration rows of a device
RegistrationsOf(db, d) ==
    {r \in DOMAIN db.registrations : db.registrations[r].deviceId = d}

\* C23: a run that goes on to send reads exactly one entry for each device
\* that has a registration row at that moment, however many rows the device
\* has; it makes exactly one request per entry, addressed to the entry's
\* pushToken; and while the pushes settle no further request is made and
\* a settled push stays as it settled (a failed push is not sent again).
C23_OneSendPerDevice ==
    /\ [][(tick.pc = "idle" /\ TickStepTaken /\ tick'.pc = "touch") =>
             /\ Len(tick'.tokens) = Cardinality(PushTargets(DB))
             /\ \A d \in PushTargets(DB) :
                   Cardinality({k \in 1..Len(tick'.tokens) :
                                   tick'.tokens[k].pushToken = devices[d].pushToken}) = 1]_vars
    /\ [][(tick.pc = "connect" /\ TickStepTaken /\ tick'.pc = "sending") =>
             /\ tick'.calls = Len(tick.tokens)
             /\ Len(tick'.sent) = Len(tick.tokens)
             /\ \A k \in 1..Len(tick.tokens) :
                   tick'.sent[k].path = tick.tokens[k].pushToken]_vars
    /\ [][(tick.pc = "sending" /\ TickStepTaken) =>
             /\ tick'.sent = tick.sent
             /\ tick'.calls = tick.calls
             /\ \A k \in 1..Len(tick.results) :
                   tick.results[k] # Pending => tick'.results[k] = tick.results[k]]_vars

\* a run has sent two pushes, one of which was rejected, while one of the
\* two devices has two registration rows
C23_Witness ==
    /\ tick.pc = "done"
    /\ tick.log = "Push results"
    /\ Len(tick.sent) = 2
    /\ tick.calls = 2
    /\ \E k \in 1..2 : tick.results[k] = Rejected
    /\ Cardinality(PushTargets(DB)) = 2
    /\ \E d \in PushTargets(DB) : Cardinality(RegistrationsOf(DB, d)) = 2

CredentialLookupFails ==
    /\ WorkerVerify(FALSE)
    /\ \E token \in AuthenticationTokens : Presents(request, token)

\* the worker's step in which a store call after the verification fails
LaterStoreCallFails ==
    \/ \E built \in BOOLEAN : WorkerLookup(FALSE, built)
    \/ WorkerRegister(FALSE)
    \/ WorkerUnregister(FALSE)
    \/ WorkerTouch(FALSE)
    \/ WorkerList(FALSE)

\* the request is answered by the step, with a 5xx status
Answered5xx ==
    /\ request'.pc = "done"
    /\ request'.status >= 500
    /\ request'.status <= 599

Registered(db, t, c) == registerDevice(db, t, c[1], c[2], c[3][1], c[3][2], c[4])

\* the registration rows of the device of a call for the passes of its key
RowsOfCall(db, c) ==
    {r \in DOMAIN db.registrations :
        /\ db.registrations[r].deviceId \in devicesByLibId(db, c[1])
        /\ db.registrations[r].passId \in passesByTypeAndSerial(db, c[3][1], c[3][2])}

\* C26: two registerDevice calls for one (passTypeIdentifier, serialNumber)
\* that has no pass row are mutations, which the store runs as transactions,
\* one after the other in either order: neither throws, exactly one pass
\* row with the key results, and the registration of the later call has
\* the passId of the row the earlier call inserted.
C26_ConcurrentRegisterOnePass ==
    \A c1 \in RegisterCalls, c2 \in RegisterCalls :
        (c1[3] = c2[3] /\ passesByTypeAndSerial(DB, c1[3][1], c1[3][2]) = {}) =>
            LET earlier == Registered(DB, now, c1)
                later == Registered(earlier.db, now, c2)
                created == passesByTypeAndSerial(earlier.db, c1[3][1], c1[3][2])
            IN  /\ ~earlier.threw
                /\ ~later.threw
                /\ Cardinality(created) = 1
                /\ passesByTypeAndSerial(later.db, c1[3][1], c1[3][2]) = created
                /\ RowsOfCall(later.db, c2) # {}
                /\ \A r \in RowsOfCall(later.db, c2) :
                      later.db.registrations[r].passId \in created

\* registerDevice calls of two devices have named a card, and there is one
\* pass row for it, which the registration rows of both devices have
C26_Witness ==
    \E p \in DOMAIN passes :
        /\ passesByTypeAndSerial(DB, passes[p].passTypeIdentifier, passes[p].serialNumber) = {p}
        /\ \A d \in DOMAIN devices : registrationsByDeviceAndPass(registrations, d, p) # {}
        /\ Cardinality(DOMAIN devices) = 2
        /\ \E q \in PassKeys : passesByTypeAndSerial(DB, q[1], q[2]) = {}

\* the pushes of a run that did not succeed: answered with another status
\* than 200, or rejected
FailedPushes(run) ==
    {k \in 1..Len(run.results) :
        run.results[k] # Pending /\ run.results[k] # Fulfilled(200)}

\* C27: the run makes the request of every token in one step, before any
\* push has settled; while pushes settle, whatever the outcomes so far,
\* each pending push can still settle either way and no step throws; and
\* the counting counts every push, failed ones among succeeded ones.
C27_SendsAreIndependent ==
    /\ [][(tick.pc = "connect" /\ TickStepTaken /\ tick'.pc = "sending") =>
             /\ Len(tick'.sent) = Len(tick.tokens)
             /\ Len(tick'.results) = Len(tick.tokens)
             /\ \A k \in 1..Len(tick.tokens) :
                   /\ tick'.sent[k] = sendPush(tick.tokens[k].pushToken,
                                               tick.tokens[k].passTypeIdentifier)
                   /\ tick'.results[k] = Pending]_vars
    /\ [](tick.pc = "sending" =>
            \A k \in 1..Len(tick.results) :
                tick.results[k] = Pending =>
                   /\ ENABLED TickSettle(k, Fulfilled(200))
                   /\ ENABLED TickSettle(k, Rejected))
    /\ [][(tick.pc = "sending" /\ TickStepTaken) =>
             /\ ~tick'.error
             /\ tick'.pc = "done" =>
                   /\ tick'.log = "Push results"
                   /\ FailedPushes(tick) \cup {k \in 1..Len(tick.results) :
                                                  tick.results[k] = Fulfilled(200)}
                         = 1..Len(tick.tokens)
                   /\ tick'.failed = Cardinality(FailedPushes(tick))
                   /\ tick'.succeeded = Len(tick.tokens) - Cardinality(FailedPushes(tick))]_vars

\* the first push of a run was rejected and the second succeeded, and both
\* were counted
C27_Witness ==
    /\ tick.pc = "done"
    /\ tick.log = "Push results"
    /\ Len(tick.results) = 2
    /\ tick.results[1] = Rejected
    /\ tick.results[2] = Fulfilled(200)
    /\ tick.succeeded = 1
    /\ tick.failed = 1

\* the runs that can start in the present state of the store
Starts(configured) ==
    {[started(DB, configured, up, first) EXCEPT
         !.executing = 1, !.failedBefore = tick.failedBefore] :
        up \in BOOLEAN, first \in FirstPasses(DB)}

\* C28: a run that finds APNS_KEY_ID, APNS_TEAM_ID or APNS_PRIVATE_KEY unset
\* ends in its first step without an error: it reads no token, makes no
\* request, opens no session, does not call touchAllPasses and changes no
\* row.  It leaves nothing behind: its only further step is its return, and
\* whichever run starts next, with or without the settings, is the run
\* that starts from the store as it then is.
C28_MissingSettingsSkip ==
    /\ [](\A up \in BOOLEAN, first \in FirstPasses(DB) :
            started(DB, FALSE, up, first) = Run("done", <<>>, "Skipping push", FALSE))
    /\ [][(tick.pc = "idle" /\ TickStepTaken /\ tick' \in Starts(FALSE)) =>
             /\ tick'.pc = "done"
             /\ ~tick'.error
             /\ tick'.tokens = <<>>
             /\ tick'.sent = <<>>
             /\ tick'.calls = 0
             /\ tick'.session = "none"
             /\ ~tick'.touched
             /\ UNCHANGED <<devices, passes, registrations>>]_vars
    /\ [][(tick.pc = "done" /\ tick.log = "Skipping push" /\ TickStepTaken) =>
             /\ tick' \in {Idle(tick.failedBefore), [tick EXCEPT !.skipped = TRUE]}
             /\ UNCHANGED <<devices, passes, registrations>>]_vars
    /\ [][(tick.pc = "idle" /\ TickStepTaken) =>
             tick' \in Starts(TRUE) \cup Starts(FALSE)]_vars

\* a run was skipped for want of the settings while devices are registered
\* and passes are in the store that touchAllPasses would have bumped
C28_Witness ==
    /\ tick.pc = "done"
    /\ tick.log = "Skipping push"
    /\ ~tick.error
    /\ tick.calls = 0
    /\ Cardinality(PushTargets(DB)) = 2
    /\ \E p \in DOMAIN passes : passes[p].lastUpdated < now

\* the run has called touchAllPasses and got its answer
Touched == tick.pc \in {"connect", "sending", "done"} /\ tick.touched

\* C29: a run makes no request before touchAllPasses has returned, and
\* touchAllPasses sets the lastUpdated of every pass to its Date.now(); from
\* then on (in particular when the run is done) getPassesForDevice for a
\* device and a type, with passesUpdatedSince the numeral of a lastUpdated
\* the device can have been given before the run (one written at an earlier
\* Date.now() than that of the run's touchAllPasses), returns every pass of
\* the type the device is registered to.
C29_TouchBeforeSend ==
    /\ []((tick.pc # "idle" /\ (tick.calls > 0 \/ tick.session # "none")) => tick.touched)
    /\ [][(tick.pc = "touch" /\ TickStepTaken /\ tick'.pc = "connect") =>
             /\ DOMAIN passes' = DOMAIN passes
             /\ \A p \in DOMAIN passes' : passes'[p].lastUpdated = now
             /\ tick'.touchedAt = now
             /\ tick'.sent = <<>>]_vars
    /\ [](Touched =>
            \A l \in DeviceLibraryIdentifiers, ty \in PassTypeIdentifiers :
                \A n \in 0..(tick.touchedAt - 1) :
                    LET res == getPassesForDevice(DB, l, ty, Str(toString(n))) IN
                    /\ ~res.threw
                    /\ ListsSerialsOf(res.serialNumbers, SubscribedPassesOfType(l, ty)))

\* a run that touched the passes at Date.now() = 2 has sent its pushes, and
\* a device registered to cards of two types gets each of them on a poll
\* with the numeral of 1
C29_Witness ==
    /\ tick.pc = "done"
    /\ tick.log = "Push results"
    /\ tick.touchedAt = 2
    /\ tick.calls = 2
    /\ \E l \in DeviceLibraryIdentifiers :
          \A ty \in PassTypeIdentifiers :
              /\ SubscribedPassesOfType(l, ty) # {}
              /\ Len(getPassesForDevice(DB, l, ty, Str(<<"1">>)).serialNumbers) = 1

\* the device of library id l has a registration row
Subscribed(l) ==
    \E d \in PushTargets(DB) : devices[d].deviceLibraryIdentifier = l

\* a run has made a request to the pushToken of the device of library id l
SentTo(l) ==
    /\ tick.pc = "sending"
    /\ \E d \in devicesByLibId(DB, l), k \in 1..Len(tick.sent) :
          tick.sent[k].path = devices[d].pushToken

\* C30: a run that starts with the APNs settings set and reads the tokens
\* reads the pushToken of every device that has a registration row, those
\* whose push failed in the last run included, and its sending step makes a
\* request to each token it read; and, when runs are started and go on
\* fairly, a device that from some time on always has a registration row
\* is sent a push again and again.
C30_FailedDeviceIsSentAgain ==
    /\ [][(tick.pc = "idle" /\ TickStepTaken /\ tick'.pc = "touch") =>
             \A d \in PushTargets(DB) :
                 \E k \in 1..Len(tick'.tokens) :
                     tick'.tokens[k].pushToken = devices[d].pushToken]_vars
    /\ [](PushTargets(DB) # {} =>
            \A first \in FirstPasses(DB) : started(DB, TRUE, TRUE, first).pc = "touch")
    /\ [][(tick.pc = "connect" /\ TickStepTaken /\ tick'.pc = "sending") =>
             \A k \in 1..Len(tick.tokens) :
                 \E j \in 1..Len(tick'.sent) :
                     tick'.sent[j].path = tick.tokens[k].pushToken]_vars
    /\ \A l \in DeviceLibraryIdentifiers : (<>[]Subscribed(l)) => []<>SentTo(l)

\* a run is sending a push to a device whose push failed in the last run
\* and which still has its registration row
C30_Witness ==
    /\ tick.pc = "sending"
    /\ \E d \in PushTargets(DB), k \in 1..Len(tick.sent) :
          /\ devices[d].pushToken \in tick.failedBefore
          /\ tick.sent[k].path = devices[d].pushToken

(***************************************************************************)
(* C36: touchPass is a frame-preserving patch of one row                   *)
(***************************************************************************)

\* the row of table at id, with lastUpdated left out
WithoutLastUpdated(row) ==
    [passTypeIdentifier |-> row.passTypeIdentifier,
     serialNumber |-> row.serialNumber,
     authenticationToken |-> row.authenticationToken]

\* what touchPass(k) may change of db: nothing when no pass has the key k,
\* else only lastUpdated of the pass row with that key
TouchPassFrame(db, after, k) ==
    LET pass == passesByTypeAndSerial(db, k[1], k[2]) IN
    /\ after.devices = db.devices
    /\ after.registrations = db.registrations
    /\ DOMAIN after.passes = DOMAIN db.passes
    /\ \A i \in DOMAIN db.passes :
          IF i \in pass
          THEN WithoutLastUpdated(after.passes[i]) = WithoutLastUpdated(db.passes[i])
          ELSE after.passes[i] = db.passes[i]
    /\ pass = {} => after = db

\* C36: touchPass(passTypeIdentifier, serialNumber) changes nothing when no
\* pass has that key; when the pass exists it sets that pass's lastUpdated to
\* Date.now() and leaves its authenticationToken, every other pass, and all
\* devices and registrations as they were.
C36_TouchPassFrame ==
    [](\A k \in PassKeys :
          LET res == touchPass(DB, now, k[1], k[2]) IN
          /\ ~res.threw
          /\ TouchPassFrame(DB, res.db, k)
          /\ \A i \in passesByTypeAndSerial(DB, k[1], k[2]) :
                res.db.passes[i].lastUpdated = now)

\* a pass was touched after its creation while another pass, a device and a
\* registration exist beside it
C36_Witness ==
    \E i, j \in DOMAIN passes :
        /\ passes[i].lastUpdated = 1
        /\ passes[j].lastUpdated = 2
        /\ touchPass(DB, now, passes[i].passTypeIdentifier,
                     passes[i].serialNumber).db.passes[i].lastUpdated = 2
        /\ registrations # EmptyTable
        /\ devices # EmptyTable

(***************************************************************************)
(* C33: passes are never deleted                                           *)
(***************************************************************************)

\* the (passTypeIdentifier, serialNumber) keys that have a pass row
PassKeysOf(db) == {<<p.passTypeIdentifier, p.serialNumber>> : p \in Rows(db.passes)}

\* C33: no operation deletes a pass: once a pass row exists for a
\* (passTypeIdentifier, serialNumber) a row for that key exists in every later
\* state, also after unregisterDevice removed the last registration to it.
C33_PassesAreNeverDeleted ==
    /\ [][PassKeysOf(DB) \subseteq PassKeysOf(DB)']_vars
    /\ [](\A l \in DeviceLibraryIdentifiers, k \in PassKeys :
             PassKeysOf(unregisterDevice(DB, l, k[1], k[2]).db) = PassKeysOf(DB))

\* every pass is still there after all registrations and devices are gone
C33_Witness ==
    /\ Cardinality(DOMAIN passes) = Cardinality(PassKeys)
    /\ registrations = EmptyTable
    /\ devices = EmptyTable

(***************************************************************************)
(* C32: a (device, card) pair can be registered again after unregistering  *)
(***************************************************************************)

\* the authenticationToken stored for the card k
StoredToken(db, k) ==
    db.passes[TheRow(passesByTypeAndSerial(db, k[1], k[2]))].authenticationToken

\* unregisterDevice for the pair (l, k), then registerDevice for it with the
\* pushToken pt and the card's stored authenticationToken
Unregistered(db, l, k) == unregisterDevice(db, l, k[1], k[2])
RegisteredAgain(db, l, pt, k) ==
    LET u == Unregistered(db, l, k).db IN
    registerDevice(u, now, l, pt, k[1], k[2], StoredToken(u, k))

\* C32: a (device, card) pair has no registration row or exactly one, and can
\* change between the two any number of times: after an unregisterDevice that
\* deleted the pair's row, registerDevice for the pair with the card's token
\* succeeds and returns isNew = TRUE again, also when the unregisterDevice
\* deleted the device row; the pair can then be unregistered again.
C32_PairCanCycle ==
    [](\A l \in DeviceLibraryIdentifiers, k \in PassKeys :
          /\ Cardinality(RegistrationRows(DB, l, k)) <= 1
          /\ Unregistered(DB, l, k).deleted =>
                /\ RegistrationRows(DB, l, k) # {}
                /\ RegistrationRows(Unregistered(DB, l, k).db, l, k) = {}
                /\ \A pt \in PushTokens :
                      LET r == RegisteredAgain(DB, l, pt, k) IN
                      /\ ~r.threw
                      /\ r.isNew
                      /\ Cardinality(RegistrationRows(r.db, l, k)) = 1
                      /\ Unregistered(r.db, l, k).deleted)

\* a device registered to one card only, beside a pass that somebody was
\* unregistered from: unregistering the device deletes its row, and the pair
\* is registered again with isNew = TRUE
C32_Witness ==
    \E l \in DeviceLibraryIdentifiers, k \in PassKeys :
        /\ UnsubscribedPasses # {}
        /\ Unregistered(DB, l, k).deleted
        /\ devicesByLibId(DB, l) # {}
        /\ devicesByLibId(Unregistered(DB, l, k).db, l) = {}
        /\ \A pt \in PushTokens : RegisteredAgain(DB, l, pt, k).isNew

(***************************************************************************)
(* C34: calls on disjoint keys commute                                     *)
(***************************************************************************)

\* a registerDevice or an unregisterDevice call
StoreOps ==
    {[name |-> "registerDevice", l |-> c[1], pt |-> c[2], k |-> c[3], a |-> c[4]] :
        c \in RegisterCalls}
    \cup {[name |-> "unregisterDevice", l |-> l, k |-> k] :
            l \in DeviceLibraryIdentifiers, k \in PassKeys}

\* the call o made at time t: [threw, db, result]
Apply(db, t, o) ==
    IF o.name = "registerDevice"
    THEN LET res == registerDevice(db, t, o.l, o.pt, o.k[1], o.k[2], o.a) IN
         [threw |-> res.threw, db |-> res.db, result |-> res.isNew]
    ELSE LET res == unregisterDevice(db, o.l, o.k[1], o.k[2]) IN
         [threw |-> res.threw, db |-> res.db, result |-> res.deleted]

\* different devices and different cards
DisjointKeys(o1, o2) == o1.l # o2.l /\ o1.k # o2.k

\* the devices, the cards with their tokens, and the (device, card) pairs
\* registered, whatever the _ids and creation times of the rows
Content(db) ==
    [devices |-> Rows(db.devices),
     passes |-> {WithoutLastUpdated(p) : p \in Rows(db.passes)},
     registrations |->
        {<<db.devices[r.deviceId].deviceLibraryIdentifier,
           db.passes[r.passId].passTypeIdentifier,
           db.passes[r.passId].serialNumber>> : r \in Rows(db.registrations)}]

\* C34: two registerDevice/unregisterDevice calls for different devices and
\* different cards commute: made in either order they leave the same devices,
\* cards (with their tokens) and registrations, each returns what it returns
\* when made alone, and neither throws because of the other.
C34_DisjointCallsCommute ==
    [](\A o1 \in StoreOps, o2 \in StoreOps :
          DisjointKeys(o1, o2) /\ o1.l = "dev1" =>
             \A t \in now..MaxClock :
                LET a == Apply(DB, now, o1)
                    b == Apply(DB, now, o2)
                    ab == Apply(a.db, t, o2)
                    ba == Apply(b.db, t, o1) IN
                /\ ~a.threw /\ ~b.threw /\ ~ab.threw /\ ~ba.threw
                /\ Content(ab.db) = Content(ba.db)
                /\ ab.result = b.result
                /\ ba.result = a.result)

\* calls on disjoint keys that both change the store: one device registers
\* for a new card while the other device is unregistered from its last one
C34_Witness ==
    \E o1 \in StoreOps, o2 \in StoreOps :
        /\ DisjointKeys(o1, o2)
        /\ o1.name = "registerDevice" /\ o2.name = "unregisterDevice"
        /\ passesByTypeAndSerial(DB, o1.k[1], o1.k[2]) = {}
        /\ Apply(DB, now, o1).result
        /\ Apply(DB, now, o2).result
        /\ devicesByLibId(Apply(DB, now, o2).db, o2.l) = {}
        /\ Content(Apply(Apply(DB, now, o1).db, now, o2).db) # Content(DB)

(***************************************************************************)
(* The SQLite store of src/db.js: deleteRegistration.  Its tables have the *)
(* columns of the Convex tables, so it is applied to the same rows.        *)
(***************************************************************************)

\* SELECT id FROM passes WHERE serial_number = ?
passesBySerial(db, serialNumber) ==
    {i \in DOMAIN db.passes : db.passes[i].serialNumber = serialNumber}

\* stmts.deleteRegistration: DELETE FROM registrations WHERE device_id =
\* (SELECT id FROM devices ...) AND pass_id = (SELECT id FROM passes WHERE
\* serial_number = ?).  A scalar subquery takes one of the rows it selects:
\* pass is that row.
stmts_deleteRegistration(db, deviceLibraryIdentifier, serialNumber, pass) ==
    LET device == devicesByLibId(db, deviceLibraryIdentifier)
        rows == IF device = {} \/ pass \notin passesBySerial(db, serialNumber)
                THEN {}
                ELSE registrationsByDeviceAndPass(db.registrations,
                                                  TheRow(device), pass)
    IN  [db |-> [db EXCEPT !.registrations =
                    [i \in DOMAIN db.registrations \ rows |-> db.registrations[i]]],
         changes |-> Cardinality(rows)]

\* SELECT r.id FROM registrations r JOIN devices d JOIN passes p WHERE
\* d.device_library_identifier = ? AND p.serial_number = ?
deleteRegistration_rows(db, deviceLibraryIdentifier, serialNumber) ==
    {r \in DOMAIN db.registrations :
        /\ db.registrations[r].deviceId \in devicesByLibId(db, deviceLibraryIdentifier)
        /\ db.registrations[r].passId \in passesBySerial(db, serialNumber)}

\* deleteRegistration(deviceLibraryIdentifier, serialNumber): .get() gives one
\* of the rows selected, row, or nothing when none is: [db, deleted]
deleteRegistration(db, deviceLibraryIdentifier, serialNumber, row) ==
    IF row \in deleteRegistration_rows(db, deviceLibraryIdentifier, serialNumber)
    THEN [db |-> [db EXCEPT !.registrations = Delete(db.registrations, row)],
          deleted |-> TRUE]
    ELSE [db |-> db, deleted |-> FALSE]

(***************************************************************************)
(* C35: unregistering deletes the registration of one (device, card) pair  *)
(***************************************************************************)

\* after differs from db in registrations by the rows between the device l
\* and the card k at most
OnlyPairDeleted(db, after, l, k) ==
    /\ DOMAIN db.registrations \ DOMAIN after.registrations
          \subseteq RegistrationRows(db, l, k)
    /\ \A r \in DOMAIN after.registrations :
          r \in DOMAIN db.registrations /\ after.registrations[r] = db.registrations[r]

\* C35: removing the registration of (deviceLibraryIdentifier,
\* passTypeIdentifier, serialNumber) deletes only the registration between
\* that device and the pass with exactly that type and serial number;
\* registrations of the device to a pass with the same serial number and
\* another type, and registrations of other devices, stay as they are.  This
\* is required of unregisterDevice and of both forms of deleteRegistration.
C35_DeletesOnlyThatRegistration ==
    [](\A l \in DeviceLibraryIdentifiers, k \in PassKeys :
          /\ OnlyPairDeleted(DB, unregisterDevice(DB, l, k[1], k[2]).db, l, k)
          /\ \A row \in deleteRegistration_rows(DB, l, k[2]) :
                OnlyPairDeleted(DB, deleteRegistration(DB, l, k[2], row).db, l, k)
          /\ \A pass \in passesBySerial(DB, k[2]) :
                OnlyPairDeleted(DB, stmts_deleteRegistration(DB, l, k[2], pass).db, l, k))

\* the same requirement of unregisterDevice alone
C35_UnregisterDeviceDeletesOnlyThatRegistration ==
    [](\A l \in DeviceLibraryIdentifiers, k \in PassKeys :
          OnlyPairDeleted(DB, unregisterDevice(DB, l, k[1], k[2]).db, l, k))

(***************************************************************************)
(* C31: a pass touched by the get-latest-pass route is listed again        *)
(***************************************************************************)

\* the get-latest-pass route has touched its pass and answers 200
PassMarkedUpdated ==
    /\ request.pc = "touch"
    /\ request'.pc = "done"
    /\ request'.status = 200

\* getPassesForDevice(l, ty, passesUpdatedSince = the numeral of n) lists serial
ListedSince(db, l, ty, n, serial) ==
    LET res == getPassesForDevice(db, l, ty, Str(toString(n))) IN
    /\ ~res.threw
    /\ \E i \in 1..Len(res.serialNumbers) : res.serialNumbers[i] = serial

\* C31: when the get-latest-pass route, having verified the caller's token,
\* has touched an existing pass, a poll by any device registered to the pass
\* with passesUpdatedSince equal to any timestamp read before the touch (any
\* n below the touch's Date.now()) lists the pass's serial number.
C31_TouchedPassIsListed ==
    [][PassMarkedUpdated =>
          \A l \in DeviceLibraryIdentifiers :
             RegistrationRows(DB, l, <<request.passTypeId, request.serialNumber>>)' # {} =>
                \A n \in 0..(now - 1) :
                   ListedSince(DB, l, request.passTypeId, n, request.serialNumber)']_vars

\* the route has touched, after its creation, a pass both devices are
\* registered to, and has answered 200
C31_Witness ==
    /\ request.pc = "done"
    /\ request.route = "latest"
    /\ request.status = 200
    /\ now = 2
    /\ \A l \in DeviceLibraryIdentifiers :
          /\ RegistrationRows(DB, l, <<request.passTypeId, request.serialNumber>>) # {}
          /\ ListedSince(DB, l, request.passTypeId, 1, request.serialNumber)

(***************************************************************************)
(* C38: the worker's register route keeps the stored authenticationToken   *)
(***************************************************************************)

\* the card of the request being handled
RequestKey == <<request.passTypeId, request.serialNumber>>

\* C38: a register request handled by the worker never changes the stored
\* authenticationToken of an existing pass: the token it passes to
\* registerDevice is the token it read from the store, which is still the
\* stored one when registerDevice runs, so through any sequence of register,
\* unregister, list and get-latest-pass requests every pass keeps the token
\* it was created with.
C38_WorkerKeepsStoredToken ==
    /\ [](request.pc = "register" =>
             /\ passesByTypeAndSerial(DB, request.passTypeId, request.serialNumber) # {}
             /\ ~Falsy(request.existingToken)
             /\ request.existingToken = StoredToken(DB, RequestKey))
    /\ [][\A p \in DOMAIN passes :
             /\ p \in DOMAIN passes'
             /\ passes'[p].authenticationToken = passes[p].authenticationToken]_vars

\* the register route has registered the requesting device to a pass that
\* the other device was registered to before, and the pass has its token
C38_Witness ==
    /\ request.pc = "done"
    /\ request.route = "register"
    /\ request.status = 201
    /\ ~Falsy(request.existingToken)
    /\ StoredToken(DB, RequestKey) = request.existingToken
    /\ RegistrationRows(DB, "dev1", RequestKey) # {}
    /\ RegistrationRows(DB, "dev2", RequestKey) # {}

(***************************************************************************)
(* The Convex HTTP endpoints (convex/http.js): /api/registerDevice,        *)
(* /api/unregisterDevice, /api/getPassesForDevice, /api/touchPass and      *)
(* /api/getPassAuthToken.  Each handler calls verifyAuth, then runs one    *)
(* query or mutation.  The request in flight is held in request, with the  *)
(* value of process.env.AUTH_TOKEN it is handled under and the number of   *)
(* queries and mutations it has run (calls).                               *)
(***************************************************************************)
BearerPrefix == <<"B", "e", "a", "r", "e", "r", " ">>

\* `${x}` for a string or undefined
template(x) ==
    IF x.kind = "string" THEN x.chars
    ELSE <<"u", "n", "d", "e", "f", "i", "n", "e", "d">>

\* process.env.AUTH_TOKEN: not set, empty, or a secret
AuthTokens == {Undefined, Str(<<>>), Str(<<"k">>)}

\* the Authorization headers presented
HttpAuthorizationHeaders ==
    {Null, Str(<<>>), Str(<<"k">>), Str(BearerPrefix), Str(BearerPrefix \o <<"k">>),
     Str(BearerPrefix \o <<"x">>), Str(BearerPrefix \o <<"k", "x">>),
     Str(BearerPrefix \o template(Undefined))}

Endpoints ==
    {"registerDevice", "unregisterDevice", "getPassesForDevice", "touchPass",
     "getPassAuthToken"}
\* the endpoints that answer 400 when a parameter is missing
GetEndpoints == {"getPassesForDevice", "getPassAuthToken"}

HttpKeys == {<<"pass.a", "s1">>, <<"pass.b", "s1">>}

\* a request as received; complete: the required query parameters are there
NewHttpRequest(endpoint, authorization, authToken, key, complete) ==
    [pc |-> "verifyAuth", endpoint |-> endpoint, authorization |-> authorization,
     AUTH_TOKEN |-> authToken, key |-> key, complete |-> complete,
     status |-> 0, calls |-> 0]

HttpRequests ==
    {NewHttpRequest(e, a, t, k, c) :
        e \in Endpoints, a \in HttpAuthorizationHeaders, t \in AuthTokens,
        k \in HttpKeys, c \in BOOLEAN}

\* verifyAuth without the test of AUTH_TOKEN being set
verifyAuth_unsetAccepted(req) ==
    req.authorization = Str(BearerPrefix \o template(req.AUTH_TOKEN))

\* verifyAuth(request)
verifyAuth(req) ==
    IF req.AUTH_TOKEN.kind # "string" \/ req.AUTH_TOKEN.chars = <<>>
    THEN FALSE
    ELSE req.authorization = Str(BearerPrefix \o template(req.AUTH_TOKEN))

\* jsonResponse(data, status)
jsonResponse(req, status) == [req EXCEPT !.pc = "done", !.status = status]

\* the handler up to its query or mutation
authorized(req) ==
    IF ~verifyAuth(req) THEN jsonResponse(req, 401)
    ELSE IF req.endpoint \in GetEndpoints /\ ~req.complete THEN jsonResponse(req, 400)
    ELSE [req EXCEPT !.pc = "run"]

\* ctx.runMutation / ctx.runQuery of the endpoint: [threw, db]
runFunction(db, t, req) ==
    CASE req.endpoint = "registerDevice" ->
           LET res == registerDevice(db, t, "dev1", "ptok1", req.key[1], req.key[2], "T1")
           IN  [threw |-> res.threw, db |-> res.db]
      [] req.endpoint = "unregisterDevice" ->
           LET res == unregisterDevice(db, "dev1", req.key[1], req.key[2])
           IN  [threw |-> res.threw, db |-> res.db]
      [] req.endpoint = "touchPass" -> touchPass(db, t, req.key[1], req.key[2])
      [] req.endpoint = "getPassesForDevice" ->
           [threw |-> getPassesForDevice(db, "dev1", req.key[1], Null).threw, db |-> db]
      [] OTHER ->
           [threw |-> getPassAuthToken(db, req.key[1], req.key[2]).threw, db |-> db]

HttpReceive(r) ==
    /\ request.pc = "idle"
    /\ request' = r
    /\ StoreUnchanged
    /\ UNCHANGED <<now, tick>>

HttpVerify ==
    /\ request.pc = "verifyAuth"
    /\ request' = authorized(request)
    /\ StoreUnchanged
    /\ UNCHANGED <<now, tick>>

HttpRun ==
    LET res == runFunction(DB, now, request) IN
    /\ request.pc = "run"
    /\ Commit(IF res.threw THEN DB ELSE res.db)
    /\ supplied' = [x \in DOMAIN supplied |->
                      IF devicesByLibId(IF res.threw THEN DB ELSE res.db, x) = {}
                      THEN None
                      ELSE IF x = "dev1" /\ request.endpoint = "registerDevice"
                                /\ ~res.threw
                      THEN "ptok1"
                      ELSE supplied[x]]
    /\ request' = [jsonResponse(request, IF res.threw THEN 500 ELSE 200)
                      EXCEPT !.calls = request.calls + 1]
    /\ UNCHANGED <<now, tick>>

HttpRespond ==
    /\ request.pc = "done"
    /\ request' = NoRequest
    /\ StoreUnchanged
    /\ UNCHANGED <<now, tick>>

HttpNext ==
    \/ \E r \in HttpRequests : HttpReceive(r)
    \/ HttpVerify
    \/ HttpRun
    \/ HttpRespond
    \/ ClockAdvance

HttpSpec == Init /\ [][HttpNext]_vars

(***************************************************************************)
(* C37: the endpoints answer 401 and touch nothing without the AUTH_TOKEN  *)
(***************************************************************************)

\* AUTH_TOKEN is configured and the Authorization header is "Bearer "
\* followed by it
PresentsAuthToken(req) ==
    /\ req.AUTH_TOKEN.kind = "string"
    /\ req.AUTH_TOKEN.chars # <<>>
    /\ req.authorization.kind = "string"
    /\ Len(req.authorization.chars) = Len(BearerPrefix) + Len(req.AUTH_TOKEN.chars)
    /\ startsWith(req.authorization.chars, BearerPrefix)
    /\ slice(req.authorization.chars, Len(BearerPrefix)) = req.AUTH_TOKEN.chars

\* C37: every Convex HTTP endpoint answers 401 and runs no query or mutation
\* unless the Authorization header is "Bearer " followed by the configured
\* AUTH_TOKEN; when AUTH_TOKEN is not configured every request is rejected.
C37_EndpointsRequireAuthToken ==
    /\ [](request.pc = "run" => PresentsAuthToken(request))
    /\ [](request.pc = "done" /\ ~PresentsAuthToken(request) =>
             request.status = 401 /\ request.calls = 0)
    /\ [](request.pc = "done" /\ request.AUTH_TOKEN \in {Undefined, Str(<<>>)} =>
             request.status = 401)
    /\ [][(request.pc # "run" \/ ~PresentsAuthToken(request)) => StoreUnchanged]_vars

\* a request presenting "Bearer undefined" or "Bearer " while AUTH_TOKEN is
\* not configured has been answered 401, with passes in the store
C37_Witness ==
    /\ request.pc = "done"
    /\ request.status = 401
    /\ request.calls = 0
    /\ request.AUTH_TOKEN \in {Undefined, Str(<<>>)}
    /\ request.authorization = Str(BearerPrefix \o template(request.AUTH_TOKEN))
    /\ request.endpoint \in {"registerDevice", "unregisterDevice", "touchPass"}
    /\ passes # EmptyTable
    /\ registrations # EmptyTable

(***************************************************************************)
(* C39: a run sends to the push targets it loaded                          *)
(***************************************************************************)

\* the pushTokens of the devices that have a registration row
TargetPushTokens(db) == {db.devices[d].pushToken : d \in PushTargets(db)}

\* the addresses of the requests the run has made
Addresses(run) == {run.sent[k].path : k \in 1..Len(run.sent)}

\* C39: every push of a run is addressed to a pushToken that the store held,
\* when the run read its tokens, for a device with at least one registration;
\* registerDevice and unregisterDevice calls made while the run goes on change
\* neither the addresses nor the number of the pushes it sends.
C39_RunSendsToLoadedTargets ==
    /\ [][(tick.pc = "idle" /\ tick'.pc # "idle") =>
             \A k \in 1..Len(tick'.tokens) :
                tick'.tokens[k].pushToken \in TargetPushTokens(DB)]_vars
    /\ [][(tick.pc # "idle" /\ tick'.pc # "idle") => tick'.tokens = tick.tokens]_vars
    /\ [](tick.pc \in {"sending", "done"} /\ tick.session # "none" =>
             /\ tick.calls = Len(tick.tokens)
             /\ Len(tick.sent) = Len(tick.tokens)
             /\ Addresses(tick) = {tick.tokens[k].pushToken : k \in 1..Len(tick.tokens)})

\* while the run waits for its two pushes, one of the devices it sent to has
\* been unregistered and is no longer a push target
C39_Witness ==
    /\ tick.pc = "sending"
    /\ tick.calls = 2
    /\ Cardinality(Addresses(tick)) = 2
    /\ Cardinality(TargetPushTokens(DB)) = 1
    /\ TargetPushTokens(DB) \subseteq Addresses(tick)

(***************************************************************************)
(* C40: the HTTP/2 session of a run is opened once and closed              *)
(***************************************************************************)

\* the run in progress has its session open / has closed it and is over
SessionOpen == tick.pc # "idle" /\ tick.session = "open"
SessionClosed == tick.pc = "done" /\ tick.session = "closed"

\* no push of the run in progress is pending
AllSettled == \A k \in 1..Len(tick.results) : tick.results[k] # Pending

\* C40: a run that opens an HTTP/2 session opens exactly one and eventually
\* closes it: given that every push eventually gets its response or its
\* error, the run ends after all pushes have settled, and the session is
\* closed whether the pushes succeeded, were refused or were rejected.
C40_SessionOpenedOnceAndClosed ==
    /\ [][(tick.pc = "idle" /\ tick'.pc # "idle") => tick'.session = "none"]_vars
    /\ [][(tick.pc # "idle" /\ tick'.pc # "idle" /\ tick'.session # tick.session) =>
             \/ /\ tick.pc = "connect"
                /\ tick.session = "none"
                /\ tick'.session = "open"
             \/ /\ tick.session = "open"
                /\ AllSettled
                /\ tick'.session = "closed"
                /\ tick'.pc = "done"]_vars
    /\ [](tick.pc = "done" => tick.session \in {"none", "closed"})
    /\ [](tick.pc # "idle" /\ tick.session = "closed" => AllSettled)
    /\ SessionOpen ~> SessionClosed
    /\ SessionOpen ~> (tick.pc = "idle")

\* a run is over with its session closed after one push was rejected and
\* the other was refused by the gateway
C40_Witness ==
    /\ SessionClosed
    /\ Len(tick.results) = 2
    /\ \E j, k \in 1..2 : tick.results[j] = Rejected /\ tick.results[k] = Fulfilled(410)

=============================================================================
